---- MODULE Spec2Model ----
(***************************************************************************)
(* Model of ha_api_limiter: the allowlist (config.py), the HTTP gate       *)
(* (limiter.py, main.py), the WebSocket filter (ws_filter.py) and the      *)
(* WebSocket relay with its two pumps (proxy.py).                          *)
(*                                                                         *)
(* Strings are TLA+ strings, read character by character with Head, Tail,  *)
(* SubSeq and Len.  A JSON value is a tagged record [t, v]: t is the       *)
(* Python type json.loads produces ("str", "num", "bool", "list", "dict",  *)
(* "null") and v the payload; a dict's payload is a function from its keys *)
(* to JSON values, a list's payload a sequence of JSON values.             *)
(***************************************************************************)
EXTENDS Integers, Sequences, FiniteSets, TLC

VARIABLES
    whitelist,              \* WhitelistConfig: the seven lists and _endpoint_patterns
    limiter,                \* main.limiter is not None (limit mode)
    ws_filter,              \* forward_websocket's ws_filter argument is not None
    ws_learner,             \* forward_websocket's ws_learner argument is not None
    pending_requests,       \* WebSocketFilter._pending_requests: id -> request type
    entity_subscriptions,   \* WebSocketFilter._entity_subscriptions: set of ids
    c2u,                    \* position of the client_to_upstream pump
    u2c,                    \* position of the upstream_to_client pump
    pc,                     \* position of the caller of a function under test
    last,                   \* the step just taken: its input and what it emitted
    learner,                \* main.learner is not None (learn mode)
    request_count,          \* Learner._request_count
    config_file,            \* the lists of the file at settings.config_path
    observed,               \* history: requests the learner has observed
    saves,                  \* history: periodic saves made by maybe_save
    loop,                   \* the event loop: the task it runs and where each task is
    relay                   \* history: the frames each pump received and forwarded

\* the learner, its file and its history
learn_vars == <<learner, request_count, config_file, observed, saves>>

vars == <<whitelist, limiter, ws_filter, ws_learner, pending_requests,
          entity_subscriptions, c2u, u2c, pc, last, learn_vars, loop, relay>>

\* no task is modelled: the event loop is left out
NoTasks == [running |-> "none", at |-> <<>>]

\* no history of the frames is kept
NoRelay == [recording |-> FALSE, counting |-> FALSE]

(***************************************************************************)
(* Bounds of the model.                                                    *)
(***************************************************************************)
MaxId == 2          \* message ids are 1..MaxId
MaxListLen == 2     \* longest identifier list / result list drawn as input
MaxRelayed == 2     \* frames a recorded connection takes, both directions together
MaxOutstanding == 2 \* list requests with one id counted as not yet answered
MaxRequests == 21   \* HTTP requests a learner observes in one run

(***************************************************************************)
(* Strings and sequences.                                                  *)
(***************************************************************************)
Range(q) == {q[i] : i \in 1..Len(q)}

StartsWith(s, p) == Len(s) >= Len(p) /\ SubSeq(s, 1, Len(p)) = p

RECURSIVE SelectSeqBy(_, _)
\* [x for x in q if x in keep], keep being the set of elements that pass the test
SelectSeqBy(q, keep) ==
    IF q = <<>> THEN <<>>
    ELSE IF Head(q) \in keep THEN <<Head(q)>> \o SelectSeqBy(Tail(q), keep)
    ELSE SelectSeqBy(Tail(q), keep)

(***************************************************************************)
(* JSON values as json.loads returns them.                                 *)
(***************************************************************************)
S(s) == [t |-> "str", v |-> s]
N(n) == [t |-> "num", v |-> n]
B(b) == [t |-> "bool", v |-> b]
L(q) == [t |-> "list", v |-> q]
D(d) == [t |-> "dict", v |-> d]
None == [t |-> "null", v |-> 0]
EmptyDict == D(<<>>)

IsStr(x) == x.t = "str"
IsList(x) == x.t = "list"
IsDict(x) == x.t = "dict"

\* Python truthiness of a JSON value
Truthy(x) ==
    CASE x.t = "null" -> FALSE
      [] x.t = "str"  -> x.v # ""
      [] x.t = "num"  -> x.v # 0
      [] x.t = "bool" -> x.v
      [] x.t = "list" -> x.v # <<>>
      [] x.t = "dict" -> DOMAIN x.v # {}

\* hash(x) succeeds: lists and dicts are unhashable
Hashable(x) == x.t \notin {"list", "dict"}

\* d.get(k, default) on the payload of a dict
GetD(d, k, default) == IF k \in DOMAIN d THEN d[k] ELSE default
\* d.get(k)
Get(d, k) == GetD(d, k, None)

\* {**d, k: x}
With(d, k, x) == [j \in DOMAIN d \cup {k} |-> IF j = k THEN x ELSE d[j]]

\* str(x) as an f-string renders a hashable JSON value
Fmt(x) ==
    CASE x.t = "str"  -> x.v
      [] x.t = "num"  -> ToString(x.v)
      [] x.t = "bool" -> (IF x.v THEN "True" ELSE "False")
      [] OTHER        -> "None"

(***************************************************************************)
(* A WebSocket frame.  A text frame carries its text: `valid` says whether *)
(* json.loads accepts it, `data` is what json.loads returns and `fmt`      *)
(* tells the sender's own serialization ("raw") from the text json.dumps   *)
(* produces ("dumps"): the two parse alike and differ as strings.          *)
(***************************************************************************)
Text(fmt, data) == [kind |-> "text", valid |-> TRUE, fmt |-> fmt, data |-> data]
BadText == [kind |-> "text", valid |-> FALSE, fmt |-> "raw", data |-> None]
Binary == [kind |-> "bytes", valid |-> FALSE, fmt |-> "raw", data |-> None]

\* json.dumps(x)
json_dumps(x) == Text("dumps", x)

(***************************************************************************)
(* config.py: WhitelistConfig.                                             *)
(***************************************************************************)
RECURSIVE Glob(_, _)
\* fnmatch.fnmatch(name, pat) for patterns made of literals, "*" and "?"
\* (posix normcase is the identity; the match is anchored at both ends)
Glob(name, pat) ==
    IF pat = "" THEN name = ""
    ELSE IF Head(pat) = "*"
        THEN Glob(name, Tail(pat)) \/ (name # "" /\ Glob(Tail(name), pat))
    ELSE /\ name # ""
         /\ (Head(pat) = "?" \/ Head(pat) = Head(name))
         /\ Glob(Tail(name), Tail(pat))

\* index of the first "}" of s, 0 when there is none
RECURSIVE FirstClose(_, _)
FirstClose(s, i) ==
    IF i > Len(s) THEN 0
    ELSE IF SubSeq(s, i, i) = "}" THEN i
    ELSE FirstClose(s, i + 1)

MARKER == "__PARAM__"

RECURSIVE SubParams(_)
\* re.sub(r"\{[^}]+\}", marker, endpoint)
SubParams(s) ==
    IF s = "" THEN ""
    ELSE IF Head(s) = "{" /\ FirstClose(s, 2) >= 3
        THEN MARKER \o SubParams(SubSeq(s, FirstClose(s, 2) + 1, Len(s)))
    ELSE Head(s) \o SubParams(Tail(s))

RECURSIVE Tokens(_)
\* re.escape(temp) with the marker then replaced by [^/]+ and \* by .* :
\* the compiled pattern as a sequence of literals, "[^/]+" and ".*"
Tokens(temp) ==
    IF temp = "" THEN <<>>
    ELSE IF StartsWith(temp, MARKER)
        THEN <<"[^/]+">> \o Tokens(SubSeq(temp, Len(MARKER) + 1, Len(temp)))
    ELSE IF Head(temp) = "*" THEN <<".*">> \o Tokens(Tail(temp))
    ELSE <<Head(temp)>> \o Tokens(Tail(temp))

RECURSIVE PatternMatch(_, _)
\* re.compile(f"^{pattern}$").match(path)
PatternMatch(toks, path) ==
    IF toks = <<>> THEN path = ""
    ELSE IF Head(toks) = "[^/]+"
        THEN /\ path # ""
             /\ Head(path) # "/"
             /\ (PatternMatch(Tail(toks), Tail(path)) \/ PatternMatch(toks, Tail(path)))
    ELSE IF Head(toks) = ".*"
        THEN PatternMatch(Tail(toks), path) \/ (path # "" /\ PatternMatch(toks, Tail(path)))
    ELSE /\ path # ""
         /\ Head(path) = Head(toks)
         /\ PatternMatch(Tail(toks), Tail(path))

\* WhitelistConfig._compile_endpoint_patterns
compile_endpoint_patterns(endpoints) ==
    [i \in 1..Len(endpoints) |-> Tokens(SubParams(endpoints[i]))]

\* WhitelistConfig as load() leaves it for a file holding these seven lists
WhitelistConfig(endpoints, entities, devices, areas, ws_types, event_types, services) ==
    [endpoints |-> endpoints, entities |-> entities, devices |-> devices,
     areas |-> areas, endpoint_patterns |-> compile_endpoint_patterns(endpoints),
     allowed_ws_types |-> ws_types, allowed_event_types |-> event_types,
     allowed_services |-> services]

is_endpoint_allowed(wl, path) ==
    \E i \in 1..Len(wl.endpoint_patterns) : PatternMatch(wl.endpoint_patterns[i], path)

is_entity_allowed(wl, entity_id) ==
    \E i \in 1..Len(wl.entities) : Glob(entity_id, wl.entities[i])

is_device_allowed(wl, device_id) ==
    \E i \in 1..Len(wl.devices) : Glob(device_id, wl.devices[i])

is_area_allowed(wl, area_id) ==
    \E i \in 1..Len(wl.areas) : Glob(area_id, wl.areas[i])

(***************************************************************************)
(* ws_filter.py: the policy tables of WebSocketFilter.                     *)
(***************************************************************************)
ENTITY_LIST_TYPES ==
    {"get_states", "config/entity_registry/list", "config/entity_registry/list_for_display"}
DEVICE_LIST_TYPES == {"config/device_registry/list"}
AREA_LIST_TYPES == {"config/area_registry/list"}
FLOOR_LIST_TYPES == {"config/floor_registry/list"}
ENTITY_SUBSCRIPTION_TYPES == {"subscribe_entities"}

BLOCKED_MESSAGE_TYPES ==
    {"render_template", "fire_event", "execute_script", "subscribe_trigger", "intent/handle"}

\* each compiled pattern: the literal it looks for at the start of the type and
\* whether the pattern ends with $ (the whole type must be that literal)
BLOCKED_MESSAGE_PATTERNS ==
    << [lit |-> "config/automation/", exact |-> FALSE],
       [lit |-> "config/script/", exact |-> FALSE],
       [lit |-> "config/scene/", exact |-> FALSE],
       [lit |-> "config_entries/", exact |-> FALSE],
       [lit |-> "hassio/", exact |-> FALSE],
       [lit |-> "backup/", exact |-> FALSE],
       [lit |-> "auth/sign_path", exact |-> TRUE],
       [lit |-> "auth/refresh_token", exact |-> FALSE],
       [lit |-> "auth/delete_refresh_token", exact |-> FALSE] >>

ALLOWED_MESSAGE_TYPES == {"auth/current_user", "lovelace/config", "lovelace/resources"}

BLOCKED_SERVICES ==
    { <<"homeassistant", "restart">>, <<"homeassistant", "stop">>,
      <<"homeassistant", "reload_all">>, <<"homeassistant", "reload_core_config">>,
      <<"homeassistant", "reload_config_entry">>, <<"homeassistant", "set_location">>,
      <<"automation", "trigger">>, <<"automation", "reload">>,
      <<"automation", "turn_on">>, <<"automation", "turn_off">>,
      <<"automation", "toggle">>,
      <<"script", "reload">>, <<"script", "turn_on">>, <<"script", "turn_off">>,
      <<"script", "toggle">>,
      <<"scene", "reload">>, <<"scene", "apply">>, <<"scene", "create">>,
      <<"input_boolean", "reload">>, <<"input_number", "reload">>,
      <<"input_select", "reload">>, <<"input_text", "reload">>,
      <<"input_datetime", "reload">>, <<"input_button", "reload">>,
      <<"shell_command", "*">>, <<"python_script", "*">>, <<"pyscript", "*">>,
      <<"rest_command", "*">>, <<"notify", "*">>,
      <<"persistent_notification", "create">>, <<"system_log", "clear">>,
      <<"recorder", "purge">>, <<"recorder", "purge_entities">>,
      <<"recorder", "disable">>, <<"recorder", "enable">>,
      <<"logger", "set_level">>, <<"logger", "set_default_level">> }

ENTITY_CONTROLLED_DOMAINS ==
    {"light", "switch", "cover", "fan", "climate", "media_player", "vacuum", "lock",
     "alarm_control_panel", "camera", "humidifier", "water_heater", "remote", "button",
     "number", "select", "siren", "text", "valve", "lawn_mower", "update"}

ALLOWED_EVENT_TYPES ==
    {"state_changed", "component_loaded", "service_registered", "service_removed",
     "themes_updated", "panels_updated", "lovelace_updated", "core_config_updated",
     "entity_registry_updated", "device_registry_updated", "area_registry_updated",
     "floor_registry_updated", "label_registry_updated", "repairs_issue_registry_updated"}

(***************************************************************************)
(* ws_filter.py: the client -> server direction.                           *)
(***************************************************************************)
\* the identifiers one field of one container supplies: a string, or the
\* strings of a list
IdsOfField(container, key) ==
    LET x == Get(container, key) IN
    IF IsStr(x) THEN <<x.v>>
    ELSE IF IsList(x)
        THEN LET strs == SelectSeq(x.v, IsStr) IN [i \in 1..Len(strs) |-> strs[i].v]
    ELSE <<>>

\* IdsOfKind looking into service_data only
IdsOfKind_service_data_only(data, key) ==
    LET sd == GetD(data, "service_data", EmptyDict)
    IN  IF IsDict(sd) THEN IdsOfField(sd.v, key) ELSE <<>>

\* the identifiers of one kind that service_data and then target supply
IdsOfKind(data, key) ==
    LET sd == GetD(data, "service_data", EmptyDict)
        tg == GetD(data, "target", EmptyDict)
    IN  (IF IsDict(sd) THEN IdsOfField(sd.v, key) ELSE <<>>)
        \o (IF IsDict(tg) THEN IdsOfField(tg.v, key) ELSE <<>>)

\* WebSocketFilter._extract_ids_from_target
extract_ids_from_target(data) ==
    [entities |-> IdsOfKind(data, "entity_id"),
     devices |-> IdsOfKind(data, "device_id"),
     areas |-> IdsOfKind(data, "area_id")]

\* is_service_blocked without the domain.* override
is_service_blocked_no_wildcard_override(wl, domain, service) ==
    IF (Fmt(domain) \o "." \o Fmt(service)) \in Range(wl.allowed_services) THEN FALSE
    ELSE IF IsStr(domain) /\ IsStr(service) /\ <<domain.v, service.v>> \in BLOCKED_SERVICES
        THEN TRUE
    ELSE IF IsStr(domain) /\ <<domain.v, "*">> \in BLOCKED_SERVICES THEN TRUE
    ELSE FALSE

\* WebSocketFilter._is_service_blocked (domain and service are hashable JSON values)
is_service_blocked(wl, domain, service) ==
    IF (Fmt(domain) \o "." \o Fmt(service)) \in Range(wl.allowed_services) THEN FALSE
    ELSE IF (Fmt(domain) \o ".*") \in Range(wl.allowed_services) THEN FALSE
    ELSE IF IsStr(domain) /\ IsStr(service) /\ <<domain.v, service.v>> \in BLOCKED_SERVICES
        THEN TRUE
    ELSE IF IsStr(domain) /\ <<domain.v, "*">> \in BLOCKED_SERVICES THEN TRUE
    ELSE FALSE

\* BlockedPatternMatch with every pattern unanchored at its end
BlockedPatternMatch_all_prefix(pattern, msg_type) == StartsWith(msg_type, pattern.lit)

\* pattern.match(msg_type) for one of BLOCKED_MESSAGE_PATTERNS
BlockedPatternMatch(pattern, msg_type) ==
    IF pattern.exact THEN msg_type = pattern.lit ELSE StartsWith(msg_type, pattern.lit)

\* WebSocketFilter._is_message_type_blocked
is_message_type_blocked(wl, msg_type) ==
    IF msg_type \in Range(wl.allowed_ws_types) THEN FALSE
    ELSE IF msg_type \in ALLOWED_MESSAGE_TYPES THEN FALSE
    ELSE IF msg_type \in BLOCKED_MESSAGE_TYPES THEN TRUE
    ELSE \E i \in 1..Len(BLOCKED_MESSAGE_PATTERNS) :
            BlockedPatternMatch(BLOCKED_MESSAGE_PATTERNS[i], msg_type)

\* _is_event_type_allowed letting any override open every event type
is_event_type_allowed_any_override(wl, event_type) ==
    IF event_type \in ALLOWED_EVENT_TYPES THEN TRUE
    ELSE IF wl.allowed_event_types # <<>> THEN TRUE
    ELSE FALSE

\* WebSocketFilter._is_event_type_allowed
is_event_type_allowed(wl, event_type) ==
    IF event_type \in ALLOWED_EVENT_TYPES THEN TRUE
    ELSE IF event_type \in Range(wl.allowed_event_types) THEN TRUE
    ELSE FALSE

\* an error frame that carries no id
create_error_response_null_id(msg_id, message) ==
    json_dumps(D([id |-> None, type |-> S("result"), success |-> B(FALSE),
                  error |-> D([code |-> S("not_allowed"), message |-> S(message)])]))

\* WebSocketFilter._create_error_response
create_error_response(msg_id, message) ==
    json_dumps(D([id |-> msg_id, type |-> S("result"), success |-> B(FALSE),
                  error |-> D([code |-> S("not_allowed"), message |-> S(message)])]))

\* filter_client_message forgetting what it tracked when it rejects a frame
ClientResult_reset_on_reject(raised, allowed, error_response, pending, subs) ==
    [raised |-> raised, allowed |-> allowed, error_response |-> error_response,
     pending |-> IF ~raised /\ ~allowed THEN <<>> ELSE pending,
     subs |-> IF ~raised /\ ~allowed THEN {} ELSE subs]

\* what filter_client_message hands back: the pair it returns, or the fact that
\* it raised, and the filter's two maps as the call leaves them
ClientResult(raised, allowed, error_response, pending, subs) ==
    [raised |-> raised, allowed |-> allowed, error_response |-> error_response,
     pending |-> pending, subs |-> subs]

TRACKED_LIST_TYPES ==
    ENTITY_LIST_TYPES \cup DEVICE_LIST_TYPES \cup AREA_LIST_TYPES \cup FLOOR_LIST_TYPES

\* no_explicit_targets with the last `not` lost
no_explicit_targets_areas_negated(ids) ==
    ids.entities = <<>> /\ ids.devices = <<>> /\ ids.areas # <<>>

\* `not entities and not devices and not areas`
no_explicit_targets(ids) == ids.entities = <<>> /\ ids.devices = <<>> /\ ids.areas = <<>>

\* the call_service part of filter_client_message (from `domain = data.get`)
filter_call_service(wl, data, msg_id, pending, subs) ==
    LET domain == GetD(data, "domain", S(""))
        service == GetD(data, "service", S(""))
        name == Fmt(domain) \o "." \o Fmt(service)
        Reject(message) ==
            ClientResult(FALSE, FALSE, <<create_error_response(msg_id, message)>>,
                         pending, subs)
    IN
    IF ~Hashable(domain) \/ ~Hashable(service)
        THEN ClientResult(TRUE, FALSE, <<>>, pending, subs)    \* TypeError: unhashable
    ELSE IF is_service_blocked(wl, domain, service)
        THEN Reject("Service not allowed: " \o name)
    ELSE
    LET ids == extract_ids_from_target(data)
        blocked_entities ==
            SelectSeqBy(ids.entities, {e \in Range(ids.entities) : ~is_entity_allowed(wl, e)})
        blocked_devices ==
            SelectSeqBy(ids.devices, {d \in Range(ids.devices) : ~is_device_allowed(wl, d)})
        blocked_areas ==
            SelectSeqBy(ids.areas, {a \in Range(ids.areas) : ~is_area_allowed(wl, a)})
    IN
    IF blocked_entities # <<>>
        THEN Reject("Entity not in whitelist: " \o blocked_entities[1])
    ELSE IF blocked_devices # <<>>
        THEN Reject("Device not in whitelist: " \o blocked_devices[1])
    ELSE IF blocked_areas # <<>>
        THEN Reject("Area not in whitelist: " \o blocked_areas[1])
    ELSE IF /\ IsStr(domain) /\ domain.v \in ENTITY_CONTROLLED_DOMAINS
            /\ no_explicit_targets(ids)
        THEN Reject("Service " \o name \o " requires explicit targets")
    ELSE ClientResult(FALSE, TRUE, <<>>, pending, subs)

\* WebSocketFilter.filter_client_message
filter_client_message(wl, pending, subs, message) ==
    IF ~message.valid
        THEN ClientResult(FALSE, TRUE, <<>>, pending, subs)     \* json.JSONDecodeError
    ELSE IF ~IsDict(message.data)
        THEN ClientResult(TRUE, FALSE, <<>>, pending, subs)     \* data.get: AttributeError
    ELSE
    LET data == message.data.v
        msg_type == Get(data, "type")
        msg_id == Get(data, "id")
        Reject(text) ==
            ClientResult(FALSE, FALSE, <<create_error_response(msg_id, text)>>,
                         pending, subs)
        Raise == ClientResult(TRUE, FALSE, <<>>, pending, subs)
    IN
    IF Truthy(msg_type) /\ ~IsStr(msg_type)
        THEN Raise          \* `in` a set (unhashable) or pattern.match (not a string)
    ELSE IF Truthy(msg_type) /\ is_message_type_blocked(wl, msg_type.v)
        THEN Reject("Message type not allowed: " \o msg_type.v)
    ELSE IF msg_type = S("subscribe_events") /\ Get(data, "event_type") = None
        THEN Reject("subscribe_events requires event_type parameter")
    ELSE IF msg_type = S("subscribe_events") /\ ~Hashable(Get(data, "event_type"))
        THEN Raise          \* event_type in ALLOWED_EVENT_TYPES: unhashable
    ELSE IF /\ msg_type = S("subscribe_events")
            /\ ~(/\ IsStr(Get(data, "event_type"))
                 /\ is_event_type_allowed(wl, Get(data, "event_type").v))
        THEN Reject("Event type not allowed: " \o Fmt(Get(data, "event_type")))
    ELSE IF ~Hashable(msg_type)
        THEN Raise          \* msg_type in ENTITY_LIST_TYPES: unhashable
    ELSE
    LET tracked == IsStr(msg_type) /\ msg_type.v \in TRACKED_LIST_TYPES /\ msg_id # None
        subscribed ==
            IsStr(msg_type) /\ msg_type.v \in ENTITY_SUBSCRIPTION_TYPES /\ msg_id # None
    IN
    IF (tracked \/ subscribed) /\ ~Hashable(msg_id)
        THEN Raise          \* dict key / set element: unhashable
    ELSE
    LET pending2 == IF tracked THEN With(pending, msg_id, msg_type.v) ELSE pending
        subs2 == IF subscribed THEN subs \cup {msg_id} ELSE subs
    IN
    IF msg_type # S("call_service")
        THEN ClientResult(FALSE, TRUE, <<>>, pending2, subs2)
    ELSE filter_call_service(wl, data, msg_id, pending2, subs2)

(***************************************************************************)
(* ws_filter.py: the server -> client direction.                           *)
(***************************************************************************)
\* is_entity_allowed / is_device_allowed / is_area_allowed applied to a JSON
\* value: fnmatch raises TypeError on a value that is not a string, and is
\* only called when the allowlist has a pattern to try
MatchRaises(patterns, x) == ~IsStr(x) /\ patterns # <<>>

\* the allowlist lookup trying its first pattern only
MatchAllowed_first_pattern_only(patterns, x) ==
    IsStr(x) /\ patterns # <<>> /\ Glob(x.v, patterns[1])

MatchAllowed(patterns, x) ==
    IsStr(x) /\ \E i \in 1..Len(patterns) : Glob(x.v, patterns[i])

\* the loop shared by _filter_entity_list, _filter_device_list and
\* _filter_area_list: keep the dicts whose `key` is truthy and allowed
FilterListBy(result, key, patterns) ==
    LET Tested(item) == IsDict(item) /\ Truthy(Get(item.v, key))
        Kept(item) == Tested(item) /\ MatchAllowed(patterns, Get(item.v, key))
    IN  [raised |-> \E i \in 1..Len(result) :
                        Tested(result[i]) /\ MatchRaises(patterns, Get(result[i].v, key)),
         out |-> SelectSeq(result, Kept)]

\* WebSocketFilter._filter_entity_list
filter_entity_list(wl, result) == FilterListBy(result, "entity_id", wl.entities)

\* _filter_device_list reading the device_id field instead of id
filter_device_list_by_device_id(wl, result) == FilterListBy(result, "device_id", wl.devices)

\* WebSocketFilter._filter_device_list
filter_device_list(wl, result) == FilterListBy(result, "id", wl.devices)

\* WebSocketFilter._filter_area_list
filter_area_list(wl, result) == FilterListBy(result, "area_id", wl.areas)

\* _filter_floor_list passing every floor through whatever the areas are
filter_floor_list_pass_through(wl, result) == [raised |-> FALSE, out |-> result]

\* WebSocketFilter._filter_floor_list
filter_floor_list(wl, result) ==
    [raised |-> FALSE, out |-> IF wl.areas = <<>> THEN <<>> ELSE result]

\* the dict comprehension without its allowlist condition
FilterEntityMap_keep_all(wl, m) == m

\* the dict comprehension of _filter_subscribe_entities_event on "a" and "c"
FilterEntityMap(wl, m) ==
    LET keep == {eid \in DOMAIN m : is_entity_allowed(wl, eid)} IN [eid \in keep |-> m[eid]]

\* WebSocketFilter._filter_subscribe_entities_event (event is a dict payload)
filter_subscribe_entities_event(wl, event) ==
    LET HasDict(k) == k \in DOMAIN event /\ IsDict(event[k])
        a == IF HasDict("a") THEN FilterEntityMap(wl, event["a"].v) ELSE <<>>
        c == IF HasDict("c") THEN FilterEntityMap(wl, event["c"].v) ELSE <<>>
        hasR == "r" \in DOMAIN event /\ IsList(event["r"])
        rIn == IF hasR THEN event["r"].v ELSE <<>>
        AllowedElem(x) == MatchAllowed(wl.entities, x)
        r == SelectSeq(rIn, AllowedElem)
        keys == (IF DOMAIN a # {} THEN {"a"} ELSE {})
                    \cup (IF DOMAIN c # {} THEN {"c"} ELSE {})
                    \cup (IF r # <<>> THEN {"r"} ELSE {})
        filtered_event ==
            [k \in keys |-> IF k = "a" THEN D(a) ELSE IF k = "c" THEN D(c) ELSE L(r)]
    IN  [raised |-> \E i \in 1..Len(rIn) : MatchRaises(wl.entities, rIn[i]),
         out |-> IF keys = {} THEN <<>> ELSE <<D(filtered_event)>>]

\* what _filter_single_message hands back: None (out = <<>>), the very dict it
\* was given (same) or a new dict; or the fact that it raised
SingleResult(raised, out, same, pending) ==
    [raised |-> raised, out |-> out, same |-> same, pending |-> pending]

\* `"a" in event or "c" in event or "r" in event` for a JSON value
HasDeltaKey(event) ==
    CASE IsDict(event) -> DOMAIN event.v \cap {"a", "c", "r"} # {}
      [] IsList(event) -> Range(event.v) \cap {S("a"), S("c"), S("r")} # {}
      [] IsStr(event)  -> \E i \in 1..Len(event.v) : SubSeq(event.v, i, i) \in {"a", "c", "r"}
      [] OTHER         -> FALSE

\* the filter _filter_single_message picks for the type of the tracked request
filter_list(wl, request_type, result) ==
    IF request_type \in DEVICE_LIST_TYPES THEN filter_device_list(wl, result)
    ELSE IF request_type \in AREA_LIST_TYPES THEN filter_area_list(wl, result)
    ELSE IF request_type \in FLOOR_LIST_TYPES THEN filter_floor_list(wl, result)
    ELSE filter_entity_list(wl, result)

\* _filter_single_message on the result of a tracked request, f being what the
\* list filter returned: {**data, "result": filtered_result}
ListOutcome(data, popped, f) ==
    IF f.raised THEN SingleResult(TRUE, <<>>, FALSE, popped)
    ELSE SingleResult(FALSE, <<D(With(data, "result", L(f.out)))>>, FALSE, popped)

\* _filter_single_message on an event of a subscribe_entities subscription, g
\* being what _filter_subscribe_entities_event returned
DeltaOutcome(data, pending, g) ==
    IF g.raised THEN SingleResult(TRUE, <<>>, FALSE, pending)
    ELSE IF g.out = <<>> THEN SingleResult(FALSE, <<>>, FALSE, pending)
    ELSE SingleResult(FALSE, <<D(With(data, "event", g.out[1]))>>, FALSE, pending)

\* WebSocketFilter._filter_single_message
filter_single_message(wl, pending, subs, msg) ==
    IF ~IsDict(msg) THEN SingleResult(TRUE, <<>>, FALSE, pending)   \* data.get: AttributeError
    ELSE
    LET data == msg.v
        msg_type == Get(data, "type")
        msg_id == Get(data, "id")
        Raise(p) == SingleResult(TRUE, <<>>, FALSE, p)
        Same(p) == SingleResult(FALSE, <<msg>>, TRUE, p)
    IN
    IF msg_type = S("result") /\ ~Hashable(msg_id) THEN Raise(pending)
    ELSE IF msg_type = S("result") /\ msg_id \in DOMAIN pending
        THEN LET request_type == pending[msg_id]
                 popped == [k \in DOMAIN pending \ {msg_id} |-> pending[k]]
                 result == Get(data, "result")
             IN  IF ~IsList(result) THEN Same(popped)
                 ELSE ListOutcome(data, popped, filter_list(wl, request_type, result.v))
    ELSE IF msg_type # S("event") THEN Same(pending)
    ELSE
    LET event == GetD(data, "event", EmptyDict) IN
    IF ~Hashable(msg_id) THEN Raise(pending)        \* msg_id in a set: unhashable
    ELSE IF msg_id \in subs
        THEN IF event.t \in {"null", "num", "bool"} THEN Raise(pending)  \* "a" in event
             ELSE IF ~HasDeltaKey(event) THEN Same(pending)
             ELSE IF ~IsDict(event) THEN Raise(pending)                \* event["a"]
             ELSE DeltaOutcome(data, pending, filter_subscribe_entities_event(wl, event.v))
    ELSE IF ~IsDict(event) THEN Raise(pending)      \* event.get: AttributeError
    ELSE IF Get(event.v, "event_type") # S("state_changed") THEN Same(pending)
    ELSE
    LET event_data == GetD(event.v, "data", EmptyDict) IN
    IF ~IsDict(event_data) THEN Raise(pending)      \* event_data.get: AttributeError
    ELSE
    LET entity_id == Get(event_data.v, "entity_id") IN
    IF ~Truthy(entity_id) THEN Same(pending)
    ELSE IF MatchRaises(wl.entities, entity_id) THEN Raise(pending)
    ELSE IF ~MatchAllowed(wl.entities, entity_id) THEN SingleResult(FALSE, <<>>, FALSE, pending)
    ELSE Same(pending)

\* the loop of filter_server_message over the elements of a batch, from element
\* i on: the elements kept so far, whether anything changed, and the pending map
RECURSIVE FilterBatch(_, _, _, _, _, _, _)

\* the body of the loop for element i, r being what _filter_single_message
\* returned for it
BatchElement(wl, subs, batch, i, filtered, modified, r) ==
    IF r.raised
        THEN [raised |-> TRUE, filtered |-> filtered, modified |-> modified,
              pending |-> r.pending]
    ELSE IF r.out = <<>>
        THEN FilterBatch(wl, r.pending, subs, batch, i + 1, filtered, TRUE)
    ELSE IF ~r.same
        THEN FilterBatch(wl, r.pending, subs, batch, i + 1, filtered \o r.out, TRUE)
    ELSE FilterBatch(wl, r.pending, subs, batch, i + 1, Append(filtered, batch[i]), modified)

FilterBatch(wl, pending, subs, batch, i, filtered, modified) ==
    IF i > Len(batch)
        THEN [raised |-> FALSE, filtered |-> filtered, modified |-> modified,
              pending |-> pending]
    ELSE BatchElement(wl, subs, batch, i, filtered, modified,
                      filter_single_message(wl, pending, subs, batch[i]))

\* what filter_server_message hands back: None (out = <<>>) or the text to
\* forward; or the fact that it raised
ServerResult(raised, out, pending) == [raised |-> raised, out |-> out, pending |-> pending]

\* filter_server_message sending on an empty array when no element is left
BatchOutcome_keeps_empty(message, b) ==
    IF b.raised THEN ServerResult(TRUE, <<>>, b.pending)
    ELSE IF ~b.modified THEN ServerResult(FALSE, <<message>>, b.pending)
    ELSE ServerResult(FALSE, <<json_dumps(L(b.filtered))>>, b.pending)

\* filter_server_message after the loop over a batch, b being the loop's result
BatchOutcome(message, b) ==
    IF b.raised THEN ServerResult(TRUE, <<>>, b.pending)
    ELSE IF b.filtered = <<>> THEN ServerResult(FALSE, <<>>, b.pending)
    ELSE IF ~b.modified THEN ServerResult(FALSE, <<message>>, b.pending)
    ELSE ServerResult(FALSE, <<json_dumps(L(b.filtered))>>, b.pending)

\* filter_server_message serializing again whatever _filter_single_message
\* returned
SingleOutcome_always_dumps(message, r) ==
    IF r.raised THEN ServerResult(TRUE, <<>>, r.pending)
    ELSE IF r.out = <<>> THEN ServerResult(FALSE, <<>>, r.pending)
    ELSE ServerResult(FALSE, <<json_dumps(r.out[1])>>, r.pending)

\* filter_server_message for a single message, r being what
\* _filter_single_message returned
SingleOutcome(message, r) ==
    IF r.raised THEN ServerResult(TRUE, <<>>, r.pending)
    ELSE IF r.out = <<>> THEN ServerResult(FALSE, <<>>, r.pending)
    ELSE IF ~r.same THEN ServerResult(FALSE, <<json_dumps(r.out[1])>>, r.pending)
    ELSE ServerResult(FALSE, <<message>>, r.pending)

\* WebSocketFilter.filter_server_message
filter_server_message(wl, pending, subs, message) ==
    IF ~message.valid THEN ServerResult(FALSE, <<message>>, pending)
    ELSE IF IsList(message.data)
        THEN BatchOutcome(message,
                          FilterBatch(wl, pending, subs, message.data.v, 1, <<>>, FALSE))
    ELSE SingleOutcome(message, filter_single_message(wl, pending, subs, message.data))

(***************************************************************************)
(* limiter.py: the HTTP gate.                                              *)
(***************************************************************************)
LOWER ==
    {"a", "b", "c", "d", "e", "f", "g", "h", "i", "j", "k", "l", "m",
     "n", "o", "p", "q", "r", "s", "t", "u", "v", "w", "x", "y", "z"}
DIGIT == {"0", "1", "2", "3", "4", "5", "6", "7", "8", "9"}

\* every character of s is in the class cs
AllIn(s, cs) == \A i \in 1..Len(s) : SubSeq(s, i, i) \in cs

\* s matches [a-z_]+\.[a-z0-9_]+ from its first to its last character
EntityShape(s) ==
    \E i \in 2..(Len(s) - 1) :
        /\ SubSeq(s, i, i) = "."
        /\ AllIn(SubSeq(s, 1, i - 1), LOWER \cup {"_"})
        /\ AllIn(SubSeq(s, i + 1, Len(s)), LOWER \cup DIGIT \cup {"_"})

\* s with the prefix p removed
After(s, p) == SubSeq(s, Len(p) + 1, Len(s))

\* Limiter._extract_entity_from_path: <<>> for None
limiter_extract_entity_from_path(path) ==
    IF StartsWith(path, "/api/states/") /\ EntityShape(After(path, "/api/states/"))
        THEN <<After(path, "/api/states/")>>
    ELSE IF StartsWith(path, "/api/camera_proxy/")
            /\ EntityShape(After(path, "/api/camera_proxy/"))
        THEN <<After(path, "/api/camera_proxy/")>>
    ELSE <<>>

\* index of the first occurrence of the character c in s, 0 when there is none
RECURSIVE IndexOf(_, _, _)
IndexOf(s, c, i) ==
    IF i > Len(s) THEN 0
    ELSE IF SubSeq(s, i, i) = c THEN i
    ELSE IndexOf(s, c, i + 1)

RECURSIVE Split(_, _)
\* s.split(c)
Split(s, c) ==
    LET i == IndexOf(s, c, 1) IN
    IF i = 0 THEN <<s>>
    ELSE <<SubSeq(s, 1, i - 1)>> \o Split(SubSeq(s, i + 1, Len(s)), c)

RECURSIVE PlusToSpace(_)
\* s.replace("+", " ")
PlusToSpace(s) ==
    IF s = "" THEN ""
    ELSE (IF Head(s) = "+" THEN " " ELSE Head(s)) \o PlusToSpace(Tail(s))

RECURSIVE Strip(_)
\* s.strip(), the whitespace being spaces
Strip(s) ==
    IF s = "" THEN ""
    ELSE IF Head(s) = " " THEN Strip(Tail(s))
    ELSE IF SubSeq(s, Len(s), Len(s)) = " " THEN Strip(SubSeq(s, 1, Len(s) - 1))
    ELSE s

\* urllib.parse.parse_qs(query).get(name, []): the non-blank values of the
\* fields called name, in order (no percent-escapes in the model's queries)
ParseQsGet(query, name) ==
    LET fields == Split(query, "&")
        Name(f) == PlusToSpace(SubSeq(f, 1, IndexOf(f, "=", 1) - 1))
        Value(f) == PlusToSpace(SubSeq(f, IndexOf(f, "=", 1) + 1, Len(f)))
        Kept(f) == IndexOf(f, "=", 1) # 0 /\ Value(f) # "" /\ Name(f) = name
        kept == SelectSeq(fields, Kept)
    IN  [i \in 1..Len(kept) |-> Value(kept[i])]

RECURSIVE Flatten(_)
\* the concatenation of a sequence of sequences
Flatten(qs) == IF qs = <<>> THEN <<>> ELSE Head(qs) \o Flatten(Tail(qs))

\* _extract_entities_from_query without its /api/logbook/ branch
extract_entities_from_query_history_only(path, query) ==
    IF StartsWith(path, "/api/history/period/")
        THEN LET filter_entities == ParseQsGet(query, "filter_entity_id")
                 NonBlank(e) == Strip(e) # ""
                 Items(entity_list) ==
                     LET parts == SelectSeq(Split(entity_list, ","), NonBlank)
                     IN  [i \in 1..Len(parts) |-> Strip(parts[i])]
             IN  Flatten([i \in 1..Len(filter_entities) |-> Items(filter_entities[i])])
    ELSE <<>>

\* Limiter._extract_entities_from_query
extract_entities_from_query(path, query) ==
    IF StartsWith(path, "/api/history/period/")
        THEN LET filter_entities == ParseQsGet(query, "filter_entity_id")
                 NonBlank(e) == Strip(e) # ""
                 Items(entity_list) ==
                     LET parts == SelectSeq(Split(entity_list, ","), NonBlank)
                     IN  [i \in 1..Len(parts) |-> Strip(parts[i])]
             IN  Flatten([i \in 1..Len(filter_entities) |-> Items(filter_entities[i])])
    ELSE IF StartsWith(path, "/api/logbook/")
        THEN ParseQsGet(query, "entity")
    ELSE <<>>

CheckResult(allowed, reason) == [allowed |-> allowed, reason |-> reason]

\* Limiter.check_request
check_request(wl, path, method, query) ==
    IF path = "/health" THEN CheckResult(TRUE, "Health check endpoint")
    ELSE IF ~is_endpoint_allowed(wl, path)
        THEN CheckResult(FALSE, "Endpoint not in whitelist: " \o path)
    ELSE
    LET entity_id == limiter_extract_entity_from_path(path)
        query_entities == extract_entities_from_query(path, query)
        blocked == SelectSeqBy(query_entities,
                               {e \in Range(query_entities) : ~is_entity_allowed(wl, e)})
    IN
    IF entity_id # <<>> /\ ~is_entity_allowed(wl, entity_id[1])
        THEN CheckResult(FALSE, "Entity not in whitelist: " \o entity_id[1])
    ELSE IF blocked # <<>>
        THEN CheckResult(FALSE, "Entity not in whitelist: " \o blocked[1])
    ELSE CheckResult(TRUE, "Allowed by whitelist")

(***************************************************************************)
(* config.py: the add_* methods learn mode grows the allowlist with.  Each *)
(* returns the record [added, wl]: the method's return value and the       *)
(* allowlist it leaves.                                                    *)
(***************************************************************************)
AddResult(added, wl) == [added |-> added, wl |-> wl]

\* WhitelistConfig.add_endpoint
add_endpoint(wl, endpoint) ==
    IF endpoint \in Range(wl.endpoints) THEN AddResult(FALSE, wl)
    ELSE IF is_endpoint_allowed(wl, endpoint) THEN AddResult(FALSE, wl)
    ELSE AddResult(TRUE,
                   [wl EXCEPT !.endpoints = Append(@, endpoint),
                              !.endpoint_patterns =
                                  compile_endpoint_patterns(Append(wl.endpoints, endpoint))])

\* add_entity without the wildcard test: only a literal entry stops the append
add_entity_literal_only(wl, entity_id) ==
    IF entity_id \in Range(wl.entities) THEN AddResult(FALSE, wl)
    ELSE AddResult(TRUE, [wl EXCEPT !.entities = Append(@, entity_id)])

\* WhitelistConfig.add_entity
add_entity(wl, entity_id) ==
    IF entity_id \in Range(wl.entities) \/ is_entity_allowed(wl, entity_id)
        THEN AddResult(FALSE, wl)
    ELSE AddResult(TRUE, [wl EXCEPT !.entities = Append(@, entity_id)])

\* add_device putting the new entry in front of the list
add_device_in_front(wl, device_id) ==
    IF device_id \in Range(wl.devices) \/ is_device_allowed(wl, device_id)
        THEN AddResult(FALSE, wl)
    ELSE AddResult(TRUE, [wl EXCEPT !.devices = <<device_id>> \o @])

\* WhitelistConfig.add_device
add_device(wl, device_id) ==
    IF device_id \in Range(wl.devices) \/ is_device_allowed(wl, device_id)
        THEN AddResult(FALSE, wl)
    ELSE AddResult(TRUE, [wl EXCEPT !.devices = Append(@, device_id)])

\* add_area appending without looking at the list
add_area_untested(wl, area_id) ==
    AddResult(TRUE, [wl EXCEPT !.areas = Append(@, area_id)])

\* WhitelistConfig.add_area
add_area(wl, area_id) ==
    IF area_id \in Range(wl.areas) \/ is_area_allowed(wl, area_id)
        THEN AddResult(FALSE, wl)
    ELSE AddResult(TRUE, [wl EXCEPT !.areas = Append(@, area_id)])

(***************************************************************************)
(* config.py: the config file.  The model keeps the seven lists the file   *)
(* holds; its comments and layout are not modelled.                        *)
(***************************************************************************)
\* the characters of the model's strings in code point order
CODE_POINTS ==
    " *+,-./0123456789:=?ABCDEFGHIJKLMNOPQRSTUVWXYZ_abcdefghijklmnopqrstuvwxyz{}"

\* the position of the character c in the code point order
Ord(c) == IndexOf(CODE_POINTS, c, 1)

RECURSIVE StrLess(_, _)
\* a < b on Python strings
StrLess(a, b) ==
    IF b = "" THEN FALSE
    ELSE IF a = "" THEN TRUE
    ELSE IF Head(a) = Head(b) THEN StrLess(Tail(a), Tail(b))
    ELSE Ord(Head(a)) < Ord(Head(b))

RECURSIVE Insert(_, _)
\* x put in its place in the sorted sequence q
Insert(q, x) ==
    IF q = <<>> THEN <<x>>
    ELSE IF StrLess(x, Head(q)) THEN <<x>> \o q
    ELSE <<Head(q)>> \o Insert(Tail(q), x)

RECURSIVE Sorted(_)
\* sorted(q)
Sorted(q) == IF q = <<>> THEN <<>> ELSE Insert(Sorted(Tail(q)), Head(q))

\* append_items of WhitelistConfig.save: the list of a key after the call
append_items(existing, items) ==
    existing \o Sorted(SelectSeqBy(items, Range(items) \ Range(existing)))

\* the file load() reads a given allowlist from
FileOf(wl) ==
    [endpoints |-> wl.endpoints, entities |-> wl.entities, devices |-> wl.devices,
     areas |-> wl.areas, allowed_ws_types |-> wl.allowed_ws_types,
     allowed_event_types |-> wl.allowed_event_types,
     allowed_services |-> wl.allowed_services]

\* WhitelistConfig.save: the file it leaves (a missing file counts as one
\* with no entries)
save(wl, file) ==
    [file EXCEPT !.endpoints = append_items(@, wl.endpoints),
                 !.entities = append_items(@, wl.entities),
                 !.devices = append_items(@, wl.devices),
                 !.areas = append_items(@, wl.areas)]

\* WhitelistConfig.load
load(file) ==
    WhitelistConfig(file.endpoints, file.entities, file.devices, file.areas,
                    file.allowed_ws_types, file.allowed_event_types, file.allowed_services)

\* the state of a process that runs in limit mode: no learner
NoLearner ==
    /\ learner = FALSE
    /\ request_count = 0
    /\ config_file = FileOf(whitelist)
    /\ observed = 0
    /\ saves = 0

(***************************************************************************)
(* learner.py: Learner.                                                    *)
(***************************************************************************)
save_interval == 10

\* s matches [a-z_]+/[a-z_]+ from its first to its last character
ServiceShape(s) ==
    \E i \in 2..(Len(s) - 1) :
        /\ SubSeq(s, i, i) = "/"
        /\ AllIn(SubSeq(s, 1, i - 1), LOWER \cup {"_"})
        /\ AllIn(SubSeq(s, i + 1, Len(s)), LOWER \cup {"_"})

\* s starts with \d{4}-\d{2}-\d{2}
DatePrefix(s) ==
    /\ Len(s) >= 10
    /\ AllIn(SubSeq(s, 1, 4), DIGIT)
    /\ SubSeq(s, 5, 5) = "-"
    /\ AllIn(SubSeq(s, 6, 7), DIGIT)
    /\ SubSeq(s, 8, 8) = "-"
    /\ AllIn(SubSeq(s, 9, 10), DIGIT)

\* _normalize_endpoint taking one trailing slash off a path of no known shape
normalize_endpoint_strip_slash(path) ==
    IF StartsWith(path, "/api/states/") /\ EntityShape(After(path, "/api/states/"))
        THEN "/api/states/{entity_id}"
    ELSE IF StartsWith(path, "/api/services/")
            /\ ServiceShape(After(path, "/api/services/"))
        THEN "/api/services/{domain}/{service}"
    ELSE IF StartsWith(path, "/api/camera_proxy/")
            /\ EntityShape(After(path, "/api/camera_proxy/"))
        THEN "/api/camera_proxy/{entity_id}"
    ELSE IF StartsWith(path, "/api/history/period/")
            /\ DatePrefix(After(path, "/api/history/period/"))
        THEN "/api/history/period/{timestamp}"
    ELSE IF StartsWith(path, "/api/logbook/") /\ DatePrefix(After(path, "/api/logbook/"))
        THEN "/api/logbook/{timestamp}"
    ELSE IF Len(path) > 1 /\ SubSeq(path, Len(path), Len(path)) = "/"
        THEN SubSeq(path, 1, Len(path) - 1)
    ELSE path

\* Learner._normalize_endpoint
normalize_endpoint(path) ==
    IF StartsWith(path, "/api/states/") /\ EntityShape(After(path, "/api/states/"))
        THEN "/api/states/{entity_id}"
    ELSE IF StartsWith(path, "/api/services/")
            /\ ServiceShape(After(path, "/api/services/"))
        THEN "/api/services/{domain}/{service}"
    ELSE IF StartsWith(path, "/api/camera_proxy/")
            /\ EntityShape(After(path, "/api/camera_proxy/"))
        THEN "/api/camera_proxy/{entity_id}"
    ELSE IF StartsWith(path, "/api/history/period/")
            /\ DatePrefix(After(path, "/api/history/period/"))
        THEN "/api/history/period/{timestamp}"
    ELSE IF StartsWith(path, "/api/logbook/") /\ DatePrefix(After(path, "/api/logbook/"))
        THEN "/api/logbook/{timestamp}"
    ELSE path

RECURSIVE RunLen(_, _)
\* how many leading characters of s are in the class cs
RunLen(s, cs) ==
    IF s = "" \/ Head(s) \notin cs THEN 0 ELSE 1 + RunLen(Tail(s), cs)

\* what ([a-z_]+\.[a-z0-9_]+) captures at the start of s: "" when it does
\* not match there (both runs are greedy)
ShapePrefix(s) ==
    LET a == RunLen(s, LOWER \cup {"_"})
        rest == SubSeq(s, a + 2, Len(s))
        b == RunLen(rest, LOWER \cup DIGIT \cup {"_"})
    IN  IF a >= 1 /\ SubSeq(s, a + 1, a + 1) = "." /\ b >= 1
            THEN SubSeq(s, 1, a + 1 + b)
        ELSE ""

\* the second of ENTITY_PATH_PATTERNS on the text after /api/history/period/:
\* [^/]+\?.*entity_id=([a-z_]+\.[a-z0-9_]+), the positions k where the
\* capture can start; the greedy .* takes the last of them
HistoryCaptureStarts(rest) ==
    {k \in 1..Len(rest) :
        /\ \E q \in 2..(k - 11) :
              /\ SubSeq(rest, q, q) = "?"
              /\ IndexOf(SubSeq(rest, 1, q - 1), "/", 1) = 0
        /\ SubSeq(rest, k - 10, k - 1) = "entity_id="
        /\ ShapePrefix(SubSeq(rest, k, Len(rest))) # ""}

Max(xs) == CHOOSE x \in xs : \A y \in xs : y <= x

\* Learner._extract_entity_from_path: <<>> for None
learner_extract_entity_from_path(path) ==
    IF StartsWith(path, "/api/states/") /\ EntityShape(After(path, "/api/states/"))
        THEN <<After(path, "/api/states/")>>
    ELSE IF StartsWith(path, "/api/history/period/")
            /\ HistoryCaptureStarts(After(path, "/api/history/period/")) # {}
        THEN LET rest == After(path, "/api/history/period/")
             IN  <<ShapePrefix(SubSeq(rest, Max(HistoryCaptureStarts(rest)), Len(rest)))>>
    ELSE <<>>

\* the test learn_from_request puts on the entity of the path, then add_entity
LearnPathEntity(wl, entity_id) ==
    IF entity_id # <<>> /\ entity_id[1] # "" THEN add_entity(wl, entity_id[1]).wl
    ELSE wl

\* learn_from_request adding the path as it came instead of its template
learn_from_request_raw_path(wl, path, query) ==
    LearnPathEntity(add_endpoint(wl, path).wl, learner_extract_entity_from_path(path))

\* Learner.learn_from_request: the allowlist it leaves (query is only logged)
learn_from_request(wl, path, query) ==
    LearnPathEntity(add_endpoint(wl, normalize_endpoint(path)).wl,
                    learner_extract_entity_from_path(path))

\* the test _extract_ids_from_json puts on a string found under key
IdAccepted(key, s) ==
    IF key = "entity_id" THEN IndexOf(s, ".", 1) # 0 ELSE s # ""

\* the identifiers _extract_ids_from_json takes from the field key of the
\* dict payload d: a string, or the strings of a list
IdsUnder(d, key) ==
    IF key \notin DOMAIN d THEN {}
    ELSE IF IsStr(d[key])
        THEN (IF IdAccepted(key, d[key].v) THEN {d[key].v} ELSE {})
    ELSE IF IsList(d[key])
        THEN {x.v : x \in {y \in Range(d[key].v) : IsStr(y) /\ IdAccepted(key, y.v)}}
    ELSE {}

RECURSIVE IdsIn(_, _)
\* Learner._extract_ids_from_json for one of its three result sets
IdsIn(data, key) ==
    IF IsDict(data)
        THEN IdsUnder(data.v, key) \cup UNION {IdsIn(data.v[k], key) : k \in DOMAIN data.v}
    ELSE IF IsList(data)
        THEN UNION {IdsIn(data.v[i], key) : i \in 1..Len(data.v)}
    ELSE {}

\* Learner._extract_ids_from_json
extract_ids_from_json(data) ==
    [entities |-> IdsIn(data, "entity_id"),
     devices |-> IdsIn(data, "device_id"),
     areas |-> IdsIn(data, "area_id")]

\* the orders in which a Python set of strings can be iterated (string
\* hashes are randomized per process)
Orderings(xs) == {q \in [1..Cardinality(xs) -> xs] : Range(q) = xs}

RECURSIVE AddEach(_, _, _)
\* for x in q: whitelist.add_<kind>(x)
AddEach(wl, kind, q) ==
    IF q = <<>> THEN wl
    ELSE AddEach(CASE kind = "entity" -> add_entity(wl, Head(q)).wl
                   [] kind = "device" -> add_device(wl, Head(q)).wl
                   [] kind = "area"   -> add_area(wl, Head(q)).wl,
                 kind, Tail(q))

\* the three loops of learn_from_websocket_message and learn_from_response:
\* the allowlists they can leave
LearnIds(wl, ids) ==
    {AddEach(AddEach(AddEach(wl, "entity", eo), "device", do), "area", ao) :
        eo \in Orderings(ids.entities),
        do \in Orderings(ids.devices),
        ao \in Orderings(ids.areas)}

\* Learner.learn_from_websocket_message: the allowlists it can leave
learn_from_websocket_message(wl, message) ==
    IF ~message.valid THEN {wl}
    ELSE LearnIds(wl, extract_ids_from_json(message.data))

\* maybe_save saving once the counter has passed the interval
maybe_save_late(count) ==
    IF count + 1 > save_interval
        THEN [request_count |-> 0, saved |-> TRUE]
    ELSE [request_count |-> count + 1, saved |-> FALSE]

\* Learner.maybe_save on the counter: [request_count, saved]
maybe_save(count) ==
    IF count + 1 >= save_interval
        THEN [request_count |-> 0, saved |-> TRUE]
    ELSE [request_count |-> count + 1, saved |-> FALSE]

(***************************************************************************)
(* The values the model draws its inputs from.                             *)
(***************************************************************************)
\* sequences over the set xs of length at most n
RECURSIVE SeqsUpTo(_, _)
SeqsUpTo(xs, n) ==
    IF n = 0 THEN {<<>>}
    ELSE LET shorter == SeqsUpTo(xs, n - 1) IN
         shorter \cup {Append(q, x) : q \in shorter, x \in xs}

\* a JSON object from a set of <<key, value>> pairs with distinct keys
Obj(pairs) ==
    D([k \in {p[1] : p \in pairs} |-> (CHOOSE p \in pairs : p[1] = k)[2]])

\* the allowlists a config file can hold
WL_TEST ==
    WhitelistConfig(<<"/api/states", "/api/states/{entity_id}", "/api/history/period/*",
                      "/api/logbook/*", "/api/camera_proxy/{entity_id}">>,
                    <<"light.living_room", "sensor.weather_*">>,
                    <<"device_abc123">>, <<"living_room">>, <<>>, <<>>, <<>>)
WL_OVERRIDES ==
    WhitelistConfig(<<"/api/*">>, <<"light.living_room">>, <<>>, <<>>,
                    <<"render_template", "auth/sign_path", "config/automation/list">>,
                    <<"automation_triggered">>,
                    <<"automation.trigger", "notify.*", "light.*">>)
WL_EMPTY == WhitelistConfig(<<>>, <<>>, <<>>, <<>>, <<>>, <<>>, <<>>)
WL_ALL == WhitelistConfig(<<"*">>, <<"*">>, <<"*">>, <<"*">>, <<>>, <<>>, <<>>)
Whitelists == {WL_TEST, WL_OVERRIDES, WL_EMPTY, WL_ALL}

Ids == {N(i) : i \in 1..MaxId}
OptIds == {{}} \cup {{<<"id", i>>} : i \in Ids}

NoStep == [op |-> "none"]

\* identifiers of the hub: for each kind, some the test allowlist admits and
\* some it rejects
EntityNames == {"light.living_room", "light.bedroom", "sensor.weather_temp"}
DeviceNames == {"device_abc123", "device_unknown"}
AreaNames == {"living_room", "bedroom"}

\* a key that may be missing: no pair, or the key with one of the values
Fields(key, vals) == {{}} \cup {{<<key, x>>} : x \in vals}

\* message types: tracked lists, subscriptions, built-in blocked types, types on
\* either side of each kind of blocked pattern, built-in allowed types, others
PlainTypes ==
    {"get_states", "config/device_registry/list", "config/floor_registry/list",
     "subscribe_entities", "ping", "",
     "render_template", "fire_event", "intent/handle",
     "config/automation/list", "config/automation", "hassio/info", "backup/info",
     "auth/sign_path", "auth/sign_path/x", "auth/refresh_token", "auth/refresh_tokens",
     "auth/delete_refresh_token", "auth", "auth/current_user", "lovelace/config"}

PlainFrames ==
    {Obj(t \cup i) : t \in Fields("type", {S(x) : x \in PlainTypes}), i \in OptIds}

EventTypeNames == {"state_changed", "entity_registry_updated", "automation_triggered",
                   "call_service"}

SubscribeEventsFrames ==
    {Obj({<<"type", S("subscribe_events")>>} \cup i \cup e) :
        i \in OptIds, e \in Fields("event_type", {S(x) : x \in EventTypeNames})}

\* what service_data may hold under entity_id, device_id and area_id: a string,
\* a list of strings, or something that is neither
EntityFieldVals ==
    {S(e) : e \in EntityNames}
        \cup {L(q) : q \in SeqsUpTo({S("light.living_room"), S("light.bedroom")}, MaxListLen)}
        \cup {N(5)}
DeviceFieldVals == {S("device_abc123"), L(<<S("device_abc123"), S("device_unknown")>>)}
AreaFieldVals == {S(a) : a \in AreaNames}

ServiceDataVals ==
    {Obj(e \cup d \cup a) : e \in Fields("entity_id", EntityFieldVals),
                            d \in Fields("device_id", DeviceFieldVals),
                            a \in Fields("area_id", AreaFieldVals)}
        \cup {S("not a dict")}

TargetVals ==
    {Obj(e \cup d \cup a) :
        e \in Fields("entity_id", {S("light.living_room"), S("light.bedroom")}),
        d \in Fields("device_id", {S("device_unknown")}),
        a \in Fields("area_id", {S("bedroom"), L(<<S("living_room")>>)})}
        \cup {L(<<>>)}

\* (domain, service) pairs: entity-controlled, harmless, blocked exactly, blocked
\* by wildcard, blocked domain with a service the list does not name, missing
ServiceNames ==
    { {<<"domain", S("light")>>, <<"service", S("turn_on")>>},
      {<<"domain", S("sensor")>>, <<"service", S("update")>>},
      {<<"domain", S("automation")>>, <<"service", S("trigger")>>},
      {<<"domain", S("automation")>>, <<"service", S("reload")>>},
      {<<"domain", S("notify")>>, <<"service", S("mobile_app")>>},
      {<<"domain", S("shell_command")>>, <<"service", S("run")>>},
      {} }

CallServiceFrames ==
    {Obj({<<"type", S("call_service")>>} \cup i \cup n \cup sd \cup tg) :
        i \in {{<<"id", N(1)>>}}, n \in ServiceNames,
        sd \in Fields("service_data", ServiceDataVals),
        tg \in Fields("target", TargetVals)}

\* the text frames a client sends to filter_client_message
ClientMessages ==
    {Text("raw", x) : x \in PlainFrames \cup SubscribeEventsFrames \cup CallServiceFrames}
        \cup {BadText}

(***************************************************************************)
(* SpecClient: filter_client_message called once on a filter in any state  *)
(* earlier requests can have left it in.                                   *)
(***************************************************************************)
InitClient ==
    /\ whitelist \in Whitelists
    /\ limiter = TRUE
    /\ ws_filter = TRUE
    /\ ws_learner = FALSE
    /\ \E busy \in BOOLEAN :
        /\ pending_requests = IF busy THEN [k \in {N(1)} |-> "get_states"] ELSE <<>>
        /\ entity_subscriptions = IF busy THEN {N(MaxId)} ELSE {}
    /\ c2u = "idle"
    /\ u2c = "idle"
    /\ pc = "call"
    /\ last = NoStep
    /\ loop = NoTasks
    /\ relay = NoRelay
    /\ NoLearner

\* a call of filter_client_message that returned r: the filter's new state and
\* the record of the call
ClientFilterCalled(message, r) ==
    /\ pending_requests' = r.pending
    /\ entity_subscriptions' = r.subs
    /\ last' = [op |-> "filter_client_message", message |-> message,
                raised |-> r.raised, allowed |-> r.allowed,
                error_response |-> r.error_response,
                pending |-> pending_requests, subs |-> entity_subscriptions]

CallFilterClientMessage ==
    /\ pc = "call"
    /\ \E message \in ClientMessages :
        ClientFilterCalled(message,
                           filter_client_message(whitelist, pending_requests,
                                                 entity_subscriptions, message))
    /\ pc' = "done"
    /\ UNCHANGED <<learn_vars, whitelist, limiter, ws_filter, ws_learner, c2u, u2c>>
    /\ UNCHANGED <<loop, relay>>

NextClient == CallFilterClientMessage

SpecClient == InitClient /\ [][NextClient]_vars

(***************************************************************************)
(* Vocabulary of the properties of filter_client_message.                  *)
(***************************************************************************)
\* the step just taken is a call of filter_client_message on a JSON object
ClientCall ==
    /\ last.op = "filter_client_message"
    /\ last.message.valid
    /\ IsDict(last.message.data)

\* ... on a call_service frame
CallServiceCall == ClientCall /\ Get(last.message.data.v, "type") = S("call_service")

LastDomain == GetD(last.message.data.v, "domain", S("")).v
LastService == GetD(last.message.data.v, "service", S("")).v
LastServiceName == LastDomain \o "." \o LastService

\* the call rejected the frame with an error frame carrying this message
RejectedWith(text) ==
    /\ ~last.raised
    /\ ~last.allowed
    /\ Len(last.error_response) = 1
    /\ last.error_response[1].data.v["error"] =
           D([code |-> S("not_allowed"), message |-> S(text)])

\* the identifiers a frame supplies under key, in service_data and then in
\* target, each as a string or as a list of strings
SuppliedBy(x) ==
    IF IsStr(x) THEN <<x.v>>
    ELSE IF IsList(x) THEN LET strs == SelectSeq(x.v, IsStr) IN [i \in 1..Len(strs) |-> strs[i].v]
    ELSE <<>>
SuppliedIn(data, field, key) ==
    IF field \in DOMAIN data /\ IsDict(data[field]) /\ key \in DOMAIN data[field].v
        THEN SuppliedBy(data[field].v[key])
    ELSE <<>>
Supplied(key) ==
    SuppliedIn(last.message.data.v, "service_data", key)
        \o SuppliedIn(last.message.data.v, "target", key)

\* the supplied identifiers that their allowlist does not admit, in check order
OffendingEntities ==
    SelectSeqBy(Supplied("entity_id"),
                {e \in Range(Supplied("entity_id")) :
                    \A i \in 1..Len(whitelist.entities) : ~Glob(e, whitelist.entities[i])})
OffendingDevices ==
    SelectSeqBy(Supplied("device_id"),
                {d \in Range(Supplied("device_id")) :
                    \A i \in 1..Len(whitelist.devices) : ~Glob(d, whitelist.devices[i])})
OffendingAreas ==
    SelectSeqBy(Supplied("area_id"),
                {a \in Range(Supplied("area_id")) :
                    \A i \in 1..Len(whitelist.areas) : ~Glob(a, whitelist.areas[i])})
SomeOffending == OffendingEntities # <<>> \/ OffendingDevices # <<>> \/ OffendingAreas # <<>>
NoTargetSupplied ==
    Supplied("entity_id") = <<>> /\ Supplied("device_id") = <<>> /\ Supplied("area_id") = <<>>

\* the error that names the first offending identifier: entities first, then
\* devices, then areas
FirstOffendingError ==
    IF OffendingEntities # <<>> THEN "Entity not in whitelist: " \o OffendingEntities[1]
    ELSE IF OffendingDevices # <<>> THEN "Device not in whitelist: " \o OffendingDevices[1]
    ELSE "Area not in whitelist: " \o OffendingAreas[1]

\* the service of the frame is on the built-in block list and no entry of
\* allowed_services overrides it
ServiceOverridden ==
    \/ LastServiceName \in Range(whitelist.allowed_services)
    \/ (LastDomain \o ".*") \in Range(whitelist.allowed_services)
ServiceOnBlockList ==
    <<LastDomain, LastService>> \in BLOCKED_SERVICES \/ <<LastDomain, "*">> \in BLOCKED_SERVICES
ServiceBlocked == ~ServiceOverridden /\ ServiceOnBlockList

\* C7: a call_service frame whose domain is entity-controlled and which
\* supplies no entity, device or area target in service_data or target is
\* rejected with "Service <domain>.<service> requires explicit targets".
C7_ImplicitTargetRejected ==
    (CallServiceCall /\ LastDomain \in ENTITY_CONTROLLED_DOMAINS /\ NoTargetSupplied)
        => RejectedWith("Service " \o LastServiceName \o " requires explicit targets")

\* a target-less light.turn_on whose service_data holds an entity_id that is
\* neither a string nor a list has been rejected
C7_Witness ==
    /\ CallServiceCall
    /\ LastServiceName = "light.turn_on"
    /\ NoTargetSupplied
    /\ "service_data" \in DOMAIN last.message.data.v
    /\ ~last.allowed

\* C8 as stated: a call_service frame is allowed only if every identifier it
\* supplies is allowed, and otherwise it is rejected with an error that names
\* the first offending identifier (entities, then devices, then areas).
C8_Original ==
    CallServiceCall =>
        /\ last.allowed => ~SomeOffending
        /\ SomeOffending => RejectedWith(FirstOffendingError)

\* C8 as amended: ... and otherwise it is rejected; the error names the first
\* offending identifier unless the service itself is blocked, in which case
\* the error names the service.
C8_TargetsValidated ==
    CallServiceCall =>
        /\ last.allowed => ~SomeOffending
        /\ SomeOffending =>
              RejectedWith(IF ServiceBlocked THEN "Service not allowed: " \o LastServiceName
                           ELSE FirstOffendingError)

\* a frame whose entities are all allowed and whose target names a device that
\* is not has been rejected
C8_Witness ==
    /\ CallServiceCall
    /\ ~ServiceBlocked
    /\ Supplied("entity_id") # <<>>
    /\ OffendingEntities = <<>>
    /\ OffendingDevices # <<>>
    /\ OffendingAreas # <<>>
    /\ ~last.allowed

\* C9: a service is blocked iff no allowed_services entry (domain.service or
\* domain.*) names it and the built-in block list holds (domain, service) or
\* (domain, "*"); a frame for a blocked service is rejected whatever its
\* targets, and an overridden service still has its targets validated and
\* still needs explicit targets in an entity-controlled domain.
C9_ServiceBlockList ==
    CallServiceCall =>
        /\ is_service_blocked(whitelist, S(LastDomain), S(LastService)) <=> ServiceBlocked
        /\ ServiceBlocked => RejectedWith("Service not allowed: " \o LastServiceName)
        /\ (ServiceOverridden /\ SomeOffending) => RejectedWith(FirstOffendingError)
        /\ (ServiceOverridden /\ NoTargetSupplied
                /\ LastDomain \in ENTITY_CONTROLLED_DOMAINS) => ~last.allowed

\* a service on the block list, unblocked by a domain.* override, has been
\* rejected for one of its targets
C9_Witness ==
    /\ CallServiceCall
    /\ ServiceOnBlockList
    /\ (LastDomain \o ".*") \in Range(whitelist.allowed_services)
    /\ SomeOffending
    /\ ~last.allowed

\* the built-in blocked patterns as the specification lists them
PREFIX_PATTERNS ==
    {"config/automation/", "config/script/", "config/scene/", "config_entries/",
     "hassio/", "backup/", "auth/refresh_token", "auth/delete_refresh_token"}
EXACT_PATTERNS == {"auth/sign_path"}

TypeBlocked(t) ==
    /\ t \notin Range(whitelist.allowed_ws_types)
    /\ t \notin ALLOWED_MESSAGE_TYPES
    /\ \/ t \in BLOCKED_MESSAGE_TYPES
       \/ \E p \in PREFIX_PATTERNS : StartsWith(t, p)
       \/ t \in EXACT_PATTERNS

\* C10: a type is blocked iff it is neither in allowed_ws_types nor built-in
\* allowed and it is a built-in blocked type or matches a blocked pattern
\* (a prefix match, except auth/sign_path which matches exactly); a frame
\* with a blocked type is rejected with an error frame and a frame with no
\* type is allowed.
C10_TypeGate ==
    ClientCall =>
        IF "type" \in DOMAIN last.message.data.v
            THEN LET t == last.message.data.v["type"].v IN
                 /\ is_message_type_blocked(whitelist, t) <=> TypeBlocked(t)
                 /\ TypeBlocked(t) => RejectedWith("Message type not allowed: " \o t)
        ELSE ~last.raised /\ last.allowed /\ last.error_response = <<>>

\* a type that merely starts with auth/sign_path has been let through
C10_Witness ==
    /\ ClientCall
    /\ Get(last.message.data.v, "type") = S("auth/sign_path/x")
    /\ last.allowed

(***************************************************************************)
(* SpecGate: Limiter.check_request called once.                            *)
(***************************************************************************)
RECURSIVE Join(_, _)
\* sep.join(parts)
Join(parts, sep) ==
    IF parts = <<>> THEN ""
    ELSE IF Len(parts) = 1 THEN parts[1]
    ELSE parts[1] \o sep \o Join(Tail(parts), sep)

Methods == {"GET", "POST"}

\* request paths: the health path, entity paths of both kinds with allowed and
\* non-allowed entities, paths that only resemble entity paths, history and
\* logbook paths, and paths no endpoint of the test allowlist covers
Paths ==
    {"/health", "/api/states", "/api/config",
     "/api/states/light.living_room", "/api/states/light.bedroom",
     "/api/states/Light.Bedroom", "/api/states/light.bedroom/history",
     "/api/camera_proxy/light.living_room", "/api/camera_proxy/light.bedroom",
     "/api/history/period/2024-01-01", "/api/history/period",
     "/api/logbook/2024-01-01", "/api/logbook"}

\* query strings: filter_entity_id with a comma-separated list, entity given
\* once per entity, and lists with blanks, padding and repeated fields
Queries ==
    {"filter_entity_id=" \o Join(q, ",") : q \in SeqsUpTo(EntityNames, MaxListLen)}
        \cup {Join([i \in 1..Len(q) |-> "entity=" \o q[i]], "&") :
                q \in SeqsUpTo(EntityNames, MaxListLen)}
        \cup {"filter_entity_id=+light.living_room+,,+sensor.weather_temp",
              "filter_entity_id=light.living_room&x=1&filter_entity_id=light.bedroom",
              "entity_id=light.bedroom", "filter_entity_id"}

InitGate ==
    /\ whitelist \in Whitelists
    /\ limiter = TRUE
    /\ ws_filter = FALSE
    /\ ws_learner = FALSE
    /\ pending_requests = <<>>
    /\ entity_subscriptions = {}
    /\ c2u = "idle"
    /\ u2c = "idle"
    /\ pc = "call"
    /\ last = NoStep
    /\ loop = NoTasks
    /\ relay = NoRelay
    /\ NoLearner

CallCheckRequest ==
    /\ pc = "call"
    /\ \E path \in Paths, method \in Methods, query \in Queries :
        LET r == check_request(whitelist, path, method, query)
        IN  last' = [op |-> "check_request", path |-> path, method |-> method,
                     query |-> query, allowed |-> r.allowed, reason |-> r.reason]
    /\ pc' = "done"
    /\ UNCHANGED <<learn_vars, whitelist, limiter, ws_filter, ws_learner, pending_requests,
                   entity_subscriptions, c2u, u2c>>
    /\ UNCHANGED <<loop, relay>>

NextGate == CallCheckRequest

SpecGate == InitGate /\ [][NextGate]_vars

\* the entity an entity path names: <<e>> when path is /api/states/<e> or
\* /api/camera_proxy/<e> with <e> of the form [a-z_]+.[a-z0-9_]+
EntityOfPath(path) ==
    LET Under(prefix) ==
            IF StartsWith(path, prefix) /\ EntityShape(After(path, prefix))
                THEN <<After(path, prefix)>> ELSE <<>>
    IN  Under("/api/states/") \o Under("/api/camera_proxy/")

\* the entities a query lists for a path: the comma-separated, trimmed items of
\* filter_entity_id under /api/history/period/, the entity values under
\* /api/logbook/
ListedEntities(path, query) ==
    IF StartsWith(path, "/api/history/period/")
        THEN LET vals == ParseQsGet(query, "filter_entity_id")
                 items == Flatten([i \in 1..Len(vals) |-> Split(vals[i], ",")])
                 trimmed == [i \in 1..Len(items) |-> Strip(items[i])]
             IN  SelectSeqBy(trimmed, Range(trimmed) \ {""})
    ELSE IF StartsWith(path, "/api/logbook/") THEN ParseQsGet(query, "entity")
    ELSE <<>>

\* the entities of a request in check order and those the allowlist rejects
CheckedEntities == EntityOfPath(last.path) \o ListedEntities(last.path, last.query)
RejectedEntities ==
    SelectSeqBy(CheckedEntities,
                {e \in Range(CheckedEntities) : ~is_entity_allowed(whitelist, e)})

\* C6: check_request allows exactly /health and the paths whose endpoint is
\* allowed, whose path entity (if any) is allowed and whose listed query
\* entities are all allowed; a denial names the path when the endpoint check
\* failed and otherwise the first non-allowed entity, path entity first.
C6_CheckRequest ==
    last.op = "check_request" =>
        /\ last.allowed <=>
              \/ last.path = "/health"
              \/ is_endpoint_allowed(whitelist, last.path) /\ RejectedEntities = <<>>
        /\ ~last.allowed =>
              last.reason =
                  IF ~is_endpoint_allowed(whitelist, last.path)
                      THEN "Endpoint not in whitelist: " \o last.path
                  ELSE "Entity not in whitelist: " \o RejectedEntities[1]

\* a history request whose endpoint and first listed entity are allowed has
\* been denied for a later entity of its list
C6_Witness ==
    /\ last.op = "check_request"
    /\ StartsWith(last.path, "/api/history/period/")
    /\ is_endpoint_allowed(whitelist, last.path)
    /\ Len(ListedEntities(last.path, last.query)) > 1
    /\ is_entity_allowed(whitelist, ListedEntities(last.path, last.query)[1])
    /\ ~last.allowed
    /\ last.reason = "Entity not in whitelist: light.bedroom"

(***************************************************************************)
(* SpecServer: one client request through filter_client_message, then one  *)
(* upstream frame through filter_server_message, on the same filter.       *)
(***************************************************************************)
\* requests: every tracked list type, a subscription, an untracked type and a
\* blocked type, with and without an id
RequestTypes ==
    ENTITY_LIST_TYPES \cup DEVICE_LIST_TYPES \cup AREA_LIST_TYPES \cup FLOOR_LIST_TYPES
        \cup ENTITY_SUBSCRIPTION_TYPES \cup {"ping", "render_template"}

RequestFrames ==
    {Text("raw", Obj({<<"type", S(t)>>} \cup i)) : t \in RequestTypes, i \in OptIds}

\* elements of a list result: registry entries and states with allowed and
\* non-allowed identifiers, an entry carrying all three identifiers, entries
\* with an empty, an ill-typed and no identifier, and an element that is no dict
ListElements ==
    { Obj({<<"entity_id", S("light.living_room")>>, <<"state", S("on")>>}),
      Obj({<<"entity_id", S("light.bedroom")>>, <<"id", S("device_abc123")>>,
           <<"area_id", S("bedroom")>>}),
      Obj({<<"entity_id", S("sensor.weather_temp")>>}),
      Obj({<<"entity_id", S("")>>, <<"id", S("")>>, <<"area_id", S("")>>}),
      Obj({<<"id", S("device_unknown")>>, <<"area_id", S("living_room")>>}),
      Obj({<<"entity_id", N(5)>>, <<"id", N(5)>>, <<"area_id", N(5)>>}),
      Obj({<<"name", S("x")>>}),
      S("x") }

ResultVals ==
    {L(q) : q \in SeqsUpTo(ListElements, MaxListLen)}
        \cup {None, Obj({<<"entity_id", S("light.bedroom")>>})}

ResultFrames ==
    {Text("raw", Obj({<<"type", S("result")>>, <<"success", B(TRUE)>>, <<"result", r>>} \cup i)) :
        r \in ResultVals, i \in OptIds}

\* a map of subscribe_entities from each entity of es to its compressed state
StateMap(es) == D([e \in es |-> Obj({<<"s", S("on")>>})])

\* the sub-containers a delta carries: additions and changes as maps (or, for
\* additions, something that is no map), removals as a list
AdditionVals ==
    {StateMap(es) : es \in {{}, {"light.living_room"}, {"light.bedroom"},
                            {"light.living_room", "light.bedroom"},
                            {"light.bedroom", "sensor.weather_temp"}, {""}}}
        \cup {L(<<S("light.living_room")>>)}
ChangeVals == {StateMap(es) : es \in {{"light.bedroom"}, {"sensor.weather_temp"}}}
RemovalVals ==
    {L(q) : q \in SeqsUpTo({S("light.living_room"), S("light.bedroom")}, MaxListLen)}
        \cup {L(<<S("")>>), S("light.bedroom")}

\* events of a subscribe_entities subscription, and an event of such a
\* subscription that carries no delta
DeltaFrames ==
    {Text("raw", Obj({<<"type", S("event")>>,
                      <<"event", Obj(a \cup c \cup r \cup x)>>} \cup i)) :
        a \in Fields("a", AdditionVals), c \in Fields("c", ChangeVals),
        r \in Fields("r", RemovalVals), x \in {{}, {<<"x", N(1)>>}}, i \in OptIds}

\* what the data of an event of the event bus may hold under entity_id
BusEntityVals == {S(e) : e \in EntityNames} \cup {S(""), None}

\* events of the event bus: state_changed and other types, with and without
\* data and entity_id
BusEventFrames ==
    {Text("raw", Obj({<<"type", S("event")>>, <<"event", Obj(t \cup d)>>} \cup i)) :
        t \in Fields("event_type", {S("state_changed"), S("entity_registry_updated")}),
        d \in Fields("data", {Obj(e \cup {<<"new_state", None>>}) :
                                 e \in Fields("entity_id", BusEntityVals)}),
        i \in OptIds}
        \cup {Text("raw", Obj({<<"type", S("event")>>, <<"id", N(1)>>}))}

\* elements of a batch: a list result, state_changed events of an allowed and
\* of a non-allowed entity, a pong, and an element that is no object
BatchElements ==
    {Obj({<<"type", S("result")>>, <<"id", N(1)>>, <<"success", B(TRUE)>>,
          <<"result", L(<<Obj({<<"entity_id", S("light.living_room")>>}),
                          Obj({<<"entity_id", S("light.bedroom")>>})>>)>>}),
     Obj({<<"type", S("event")>>, <<"id", N(MaxId)>>,
          <<"event", Obj({<<"event_type", S("state_changed")>>,
                          <<"data", Obj({<<"entity_id", S("light.living_room")>>})>>})>>}),
     Obj({<<"type", S("event")>>, <<"id", N(MaxId)>>,
          <<"event", Obj({<<"event_type", S("state_changed")>>,
                          <<"data", Obj({<<"entity_id", S("light.bedroom")>>})>>})>>}),
     Obj({<<"type", S("pong")>>, <<"id", N(1)>>}),
     S("x")}

\* batches: arrays of up to MaxListLen elements, the empty array included
BatchFrames == {Text("raw", L(q)) : q \in SeqsUpTo(BatchElements, MaxListLen)}

\* the text frames the upstream sends to filter_server_message here
ServerMessages ==
    ResultFrames \cup DeltaFrames \cup BusEventFrames \cup BatchFrames
        \cup {BadText,
              Text("raw", Obj({<<"type", S("pong")>>, <<"id", N(1)>>})),
              Text("raw", Obj({<<"type", S("result")>>, <<"id", N(1)>>, <<"success", B(FALSE)>>}))}

InitServer ==
    /\ whitelist \in Whitelists
    /\ limiter = TRUE
    /\ ws_filter = TRUE
    /\ ws_learner = FALSE
    /\ pending_requests = <<>>
    /\ entity_subscriptions = {}
    /\ c2u = "idle"
    /\ u2c = "idle"
    /\ pc = "request"
    /\ last = NoStep
    /\ loop = NoTasks
    /\ relay = NoRelay
    /\ NoLearner

ClientRequest ==
    /\ pc = "request"
    /\ \E message \in RequestFrames :
        ClientFilterCalled(message,
                           filter_client_message(whitelist, pending_requests,
                                                 entity_subscriptions, message))
    /\ pc' = "respond"
    /\ UNCHANGED <<learn_vars, whitelist, limiter, ws_filter, ws_learner, c2u, u2c>>
    /\ UNCHANGED <<loop, relay>>

\* a call of filter_server_message that returned r: the filter's new state and
\* the record of the call, with the request that went before
ServerFilterCalled(message, r) ==
    /\ pending_requests' = r.pending
    /\ last' = [op |-> "filter_server_message", message |-> message,
                raised |-> r.raised, out |-> r.out, request |-> last,
                pending |-> pending_requests]

CallFilterServerMessage ==
    /\ pc = "respond"
    /\ \E message \in ServerMessages :
        ServerFilterCalled(message,
                           filter_server_message(whitelist, pending_requests,
                                                 entity_subscriptions, message))
    /\ pc' = "done"
    /\ UNCHANGED <<learn_vars, whitelist, limiter, ws_filter, ws_learner, entity_subscriptions,
                   c2u, u2c>>
    /\ UNCHANGED <<loop, relay>>

NextServer == ClientRequest \/ CallFilterServerMessage

SpecServer == InitServer /\ [][NextServer]_vars

\* the last step handed filter_server_message a result frame with a list
\* result, whose id is that of the request of one of `types` accepted before
ListResultFor(types) ==
    /\ last.op = "filter_server_message"
    /\ last.request.allowed
    /\ last.message.valid
    /\ IsDict(last.message.data)
    /\ LET req == last.request.message.data.v
           frame == last.message.data.v
       IN  /\ "id" \in DOMAIN req
           /\ req["type"] \in {S(t) : t \in types}
           /\ Get(frame, "type") = S("result")
           /\ Get(frame, "id") = req["id"]
           /\ IsList(Get(frame, "result"))

\* the field that identifies an element and the allowlist predicate on it, for
\* the list the request asked for
ElementKey ==
    LET t == last.request.message.data.v["type"].v IN
    IF t \in DEVICE_LIST_TYPES THEN "id"
    ELSE IF t \in AREA_LIST_TYPES THEN "area_id" ELSE "entity_id"

IdentifierAllowed(x) ==
    LET t == last.request.message.data.v["type"].v IN
    IF t \in DEVICE_LIST_TYPES THEN is_device_allowed(whitelist, x)
    ELSE IF t \in AREA_LIST_TYPES THEN is_area_allowed(whitelist, x)
    ELSE is_entity_allowed(whitelist, x)

Allowlist ==
    LET t == last.request.message.data.v["type"].v IN
    IF t \in DEVICE_LIST_TYPES THEN whitelist.devices
    ELSE IF t \in AREA_LIST_TYPES THEN whitelist.areas ELSE whitelist.entities

\* the identifier of an element, when it is a dict that has one
HasIdentifier(x) == IsDict(x) /\ ElementKey \in DOMAIN x.v
Identifier(x) == x.v[ElementKey]

\* the frame handed back is the frame given with `result` replaced by `kept`
ReturnsWithResult(kept) ==
    /\ ~last.raised
    /\ Len(last.out) = 1
    /\ last.out[1].valid
    /\ last.out[1].data = D(With(last.message.data.v, "result", L(kept)))

\* C3 as stated: the result is replaced by exactly the elements whose
\* identifier the allowlist admits
C3_Original ==
    ListResultFor(ENTITY_LIST_TYPES \cup DEVICE_LIST_TYPES \cup AREA_LIST_TYPES) =>
        LET Admitted(x) == /\ HasIdentifier(x)
                           /\ IsStr(Identifier(x))
                           /\ IdentifierAllowed(Identifier(x).v)
        IN  ReturnsWithResult(SelectSeq(last.message.data.v["result"].v, Admitted))

\* an element whose identifier is truthy but no string makes the allowlist
\* lookup raise, when the allowlist has a pattern to try
IllTyped(x) ==
    HasIdentifier(x) /\ Truthy(Identifier(x)) /\ ~IsStr(Identifier(x)) /\ Allowlist # <<>>

\* C3: after an accepted entity-list, device-list or area-list request with id
\* i, a result frame with id i and a list result comes back with the result
\* replaced by exactly the elements, in their order, whose identifier is a
\* non-empty string the allowlist admits, every other field unchanged; the call
\* raises instead exactly when an element has an ill-typed identifier.
C3_ListResultFiltered ==
    ListResultFor(ENTITY_LIST_TYPES \cup DEVICE_LIST_TYPES \cup AREA_LIST_TYPES) =>
        LET result == last.message.data.v["result"].v
            Admitted(x) == /\ HasIdentifier(x)
                           /\ IsStr(Identifier(x))
                           /\ Identifier(x).v # ""
                           /\ IdentifierAllowed(Identifier(x).v)
        IN  IF \E i \in 1..Len(result) : IllTyped(result[i])
                THEN last.raised
            ELSE ReturnsWithResult(SelectSeq(result, Admitted))

\* a device list came back with one element kept and one removed
C3_Witness ==
    /\ ListResultFor(DEVICE_LIST_TYPES)
    /\ ~last.raised
    /\ Len(last.message.data.v["result"].v) = 2
    /\ Len(last.out[1].data.v["result"].v) = 1
    /\ last.out[1].data.v["result"].v[1] = last.message.data.v["result"].v[2]

(***************************************************************************)
(* SpecHttp: the HTTP surface of main.py in limit mode, one request.       *)
(***************************************************************************)
\* what the upstream answers when it is contacted: it has its own access
\* control, so a 403 can also come from there
UpstreamStatuses == {200, 403}

\* the body of the 403 response of proxy_request
error_body(reason) == "{\"error\": \"" \o reason \o "\"}"

\* the response of a handler and whether it contacted the upstream
HttpStep(handler, path, method, query, status, body, forwarded) ==
    [op |-> handler, path |-> path, method |-> method, query |-> query,
     status |-> status, body |-> body, forwarded |-> forwarded]

InitHttp ==
    /\ whitelist \in Whitelists
    /\ limiter = TRUE
    /\ ws_filter = FALSE
    /\ ws_learner = FALSE
    /\ pending_requests = <<>>
    /\ entity_subscriptions = {}
    /\ c2u = "idle"
    /\ u2c = "idle"
    /\ pc = "call"
    /\ last = NoStep
    /\ loop = NoTasks
    /\ relay = NoRelay
    /\ NoLearner

\* health_check: the route GET /health
health_check ==
    /\ pc = "call"
    /\ \E query \in Queries :
        last' = HttpStep("health_check", "/health", "GET", query, 200,
                         "{\"status\":\"healthy\",\"mode\":\"limit\",\"ha_url\":\"http://localhost:8123\"}", FALSE)
    /\ pc' = "done"
    /\ UNCHANGED <<learn_vars, whitelist, limiter, ws_filter, ws_learner, pending_requests,
                   entity_subscriptions, c2u, u2c>>
    /\ UNCHANGED <<loop, relay>>

\* what the upstream answers with: a body that is not announced as JSON, a
\* JSON object naming an entity, a device and an area, and a body announced
\* as JSON that does not parse
ResponseContents ==
    {[json |-> FALSE, text |-> BadText],
     [json |-> TRUE, text |-> Text("raw", Obj({<<"entity_id", S("sensor.weather_temp")>>,
                                               <<"device_id", S("device_abc123")>>,
                                               <<"area_id", S("living_room")>>}))],
     [json |-> TRUE, text |-> BadText]}

UpstreamResponses ==
    {[status |-> s, content |-> c] : s \in UpstreamStatuses, c \in ResponseContents}

\* Learner.learn_from_response: the allowlists it can leave
learn_from_response(wl, response) ==
    IF ~response.content.json THEN {wl}
    ELSE IF ~response.content.text.valid THEN {wl}
    ELSE LearnIds(wl, extract_ids_from_json(response.content.text.data))

\* the learn branch of proxy_request ends: maybe_save on the allowlist the
\* two learn calls left, r being what maybe_save does to the counter
LearnBranchEnds(learned, r) ==
    /\ whitelist' = learned
    /\ request_count' = r.request_count
    /\ config_file' = IF r.saved THEN save(learned, config_file) ELSE config_file
    /\ observed' = observed + 1
    /\ saves' = IF r.saved THEN saves + 1 ELSE saves
    /\ UNCHANGED learner

\* the body of proxy_request on one request
ProxyRequestHandled(url_path, method, query) ==
    LET path == After(url_path, "/")
        full_path == "/" \o path
        result == IF limiter THEN check_request(whitelist, full_path, method, "")
                  ELSE CheckResult(TRUE, "")
    IN  IF ~result.allowed
            THEN /\ last' = HttpStep("proxy_request", url_path, method, query, 403,
                                     error_body(result.reason), FALSE)
                 /\ UNCHANGED <<whitelist, learn_vars>>
        ELSE \E response \in UpstreamResponses :
                /\ last' = HttpStep("proxy_request", url_path, method, query,
                                    response.status, "upstream content", TRUE)
                /\ IF learner
                       THEN \E learned \in learn_from_response(
                                    learn_from_request(whitelist, full_path, query), response) :
                                LearnBranchEnds(learned, maybe_save(request_count))
                   ELSE UNCHANGED <<whitelist, learn_vars>>

\* proxy_request: the catch-all route, for every request health_check does not
\* take
proxy_request ==
    /\ pc = "call"
    /\ \E url_path \in Paths, method \in Methods, query \in Queries :
        /\ ~(url_path = "/health" /\ method = "GET")
        /\ ProxyRequestHandled(url_path, method, query)
    /\ pc' = "done"
    /\ UNCHANGED <<limiter, ws_filter, ws_learner, pending_requests,
                   entity_subscriptions, c2u, u2c>>
    /\ UNCHANGED <<loop, relay>>

NextHttp == health_check \/ proxy_request

SpecHttp == InitHttp /\ [][NextHttp]_vars

\* the decision of the HTTP gate on the request of the last step
GateDecision == check_request(whitelist, last.path, last.method, last.query)

\* C4: a request check_request denies is answered 403 with the reason in a JSON
\* body and the upstream is not contacted; only requests check_request allows
\* are forwarded.
C4_DeniedNotForwarded ==
    last.op = "proxy_request" =>
        /\ ~GateDecision.allowed =>
              /\ last.status = 403
              /\ last.body = error_body(GateDecision.reason)
              /\ ~last.forwarded
        /\ last.forwarded => GateDecision.allowed

\* what proxy_request does guarantee: it obeys the decision check_request gives
\* on the path and method alone
ProxyObeysPathDecision ==
    last.op = "proxy_request" =>
        LET r == check_request(whitelist, last.path, last.method, "") IN
        IF r.allowed THEN last.forwarded
        ELSE ~last.forwarded /\ last.status = 403 /\ last.body = error_body(r.reason)

\* the entities a history request lists in filter_entity_id that the allowlist
\* rejects, in their order
RejectedHistoryEntities ==
    IF StartsWith(last.path, "/api/history/period/")
        THEN LET listed == ListedEntities(last.path, last.query)
             IN  SelectSeqBy(listed, {e \in Range(listed) : ~is_entity_allowed(whitelist, e)})
    ELSE <<>>

\* C5: a history request whose filter_entity_id lists an entity that is not
\* allowed is answered 403, the reason naming a rejected entity, and is not
\* forwarded.
C5_HistoryQueryDenied ==
    (last.op = "proxy_request" /\ RejectedHistoryEntities # <<>>) =>
        /\ last.status = 403
        /\ ~last.forwarded
        /\ \E i \in 1..Len(RejectedHistoryEntities) :
              last.body = error_body("Entity not in whitelist: " \o RejectedHistoryEntities[i])

(***************************************************************************)
(* Spec: one WebSocket connection relayed by HAProxy.forward_websocket,    *)
(* its two pumps taking frames in any interleaving.                        *)
(***************************************************************************)
\* the text frames a client sends on the connection: list requests,
\* subscriptions, a blocked type, service calls on an allowed and on a
\* non-allowed entity and on a device and an area, JSON that is no object,
\* and text that is no JSON
ConnClientFrames ==
    {Text("raw", Obj({<<"type", S(t)>>, <<"id", i>>})) :
        t \in {"get_states", "subscribe_entities"}, i \in Ids}
      \cup {Text("raw", Obj({<<"type", S(t)>>, <<"id", N(1)>>})) :
                t \in {"config/device_registry/list", "render_template"}}
      \cup {Text("raw", Obj({<<"type", S("subscribe_events")>>, <<"id", N(1)>>,
                             <<"event_type", S(e)>>})) :
                e \in {"entity_registry_updated", "call_service"}}
      \cup {Text("raw", Obj({<<"type", S("call_service")>>, <<"id", N(1)>>,
                             <<"domain", S("light")>>, <<"service", S("turn_on")>>,
                             <<"service_data", Obj({<<"entity_id", S(e)>>})>>})) :
                e \in {"light.living_room", "light.bedroom"}}
      \cup {Text("raw", Obj({<<"type", S("call_service")>>, <<"id", N(1)>>,
                             <<"domain", S("light")>>, <<"service", S("turn_on")>>,
                             <<"target", Obj({<<"device_id", L(<<S("device_unknown")>>)>>,
                                              <<"area_id", S("bedroom")>>})>>}))}
      \cup {Text("raw", S("ping")), BadText}

State(e) == Obj({<<"entity_id", S(e)>>, <<"state", S("on")>>})

\* an event frame of subscription i carrying `event`
EventFrame(i, event) == Obj({<<"type", S("event")>>, <<"id", i>>, <<"event", event>>})

\* an event of the event bus: its type and the entity its data names
BusEvent(event_type, e) ==
    Obj({<<"event_type", S(event_type)>>,
         <<"data", Obj({<<"action", S("create")>>, <<"entity_id", S(e)>>})>>})

\* the JSON messages the upstream sends: list and non-list results, deltas of
\* subscribe_entities, state_changed and registry events, a pong
UpstreamMessages ==
    {Obj({<<"type", S("result")>>, <<"id", i>>, <<"success", B(TRUE)>>, <<"result", r>>}) :
        i \in Ids,
        r \in {L(<<State("light.living_room"), State("light.bedroom")>>),
               State("light.bedroom")}}
      \cup {EventFrame(i, ev) :
                i \in Ids,
                ev \in {Obj({<<"a", Obj({<<"light.living_room", Obj({<<"s", S("on")>>})>>,
                                         <<"light.bedroom", Obj({<<"s", S("off")>>})>>})>>}),
                        Obj({<<"r", L(<<S("light.bedroom")>>)>>})}}
      \cup {EventFrame(N(1), BusEvent(t, e)) :
                t \in {"state_changed", "entity_registry_updated"},
                e \in {"light.living_room", "light.bedroom"}}
      \cup {Obj({<<"type", S("pong")>>, <<"id", N(1)>>})}

\* the text frames the upstream sends: single messages, batches, broken text
UpstreamFrames ==
    {Text("raw", m) : m \in UpstreamMessages}
      \cup {Text("raw", L(<<EventFrame(N(1), BusEvent("state_changed", "light.bedroom")),
                            EventFrame(N(1), BusEvent("state_changed", "light.living_room"))>>)),
            BadText}

\* a step of a pump: the frame it took, what the filter said of it, and the
\* frames it sent to either side
PumpStep(pump, frame, filtered, raised, allowed, to_upstream, to_client) ==
    [op |-> pump, message |-> frame, filtered |-> filtered, raised |-> raised,
     allowed |-> allowed, to_upstream |-> to_upstream, to_client |-> to_client]

\* client_to_upstream sends the text frame on although the filter rejected it
client_text_forwarded_without_continue(filter_attached, r) ==
    ~filter_attached \/ ~r.raised

\* client_to_upstream reaches `await upstream_ws.send(data)` for a text frame:
\* no filter, or the filter returned and allowed
client_text_forwarded(filter_attached, r) ==
    ~filter_attached \/ (~r.raised /\ r.allowed)

\* binary frames are sent on whether a filter is attached or not
binary_forwarded_always(filter_attached) == TRUE

\* binary frames are sent on only when no filter is attached: never
binary_forwarded_never(filter_attached) == FALSE

\* a pump reaches its send for a binary frame: no filter is attached
binary_forwarded(filter_attached) == ~filter_attached

\* the learner is called on every text frame, attached or not
PumpLearned_unconditional(learner_attached, wl, frame) ==
    learn_from_websocket_message(wl, frame)

\* the allowlists the learner call of a pump can leave: the allowlist itself
\* when no learner is attached
PumpLearned(learner_attached, wl, frame) ==
    IF learner_attached THEN learn_from_websocket_message(wl, frame) ELSE {wl}

\* limit mode attaches a filter, learn mode a learner; a connection can also
\* be relayed with neither
Init ==
    /\ whitelist \in Whitelists
    /\ ws_filter \in BOOLEAN
    /\ ws_learner \in BOOLEAN
    /\ ~(ws_filter /\ ws_learner)
    /\ limiter = ~ws_learner
    /\ pending_requests = <<>>
    /\ entity_subscriptions = {}
    /\ c2u = "idle"
    /\ u2c = "idle"
    /\ pc = "accepted"
    /\ last = NoStep
    /\ loop = NoTasks
    /\ relay = NoRelay
    /\ learner = ws_learner
    /\ request_count = 0
    /\ config_file = FileOf(whitelist)
    /\ observed = 0
    /\ saves = 0

\* what str(e) can be for the exception websockets.connect raises
ConnectErrors ==
    {"[Errno 111] Connect call failed ('127.0.0.1', 8123)",
     "server rejected WebSocket connection: HTTP 403", "timed out during handshake", ""}

\* websockets.connect returns the upstream socket: the two pumps start
connect_succeeds ==
    /\ pc = "accepted"
    /\ pc' = "open"
    /\ c2u' = "running"
    /\ u2c' = "running"
    /\ last' = [op |-> "connect_succeeds"]
    /\ UNCHANGED <<learn_vars, whitelist, limiter, ws_filter, ws_learner, pending_requests,
                   entity_subscriptions>>
    /\ UNCHANGED <<loop, relay>>

\* websockets.connect raises and the handler leaves the client socket as it is
connect_fails_without_close ==
    /\ pc = "accepted"
    /\ pc' = "closed"
    /\ \E e \in ConnectErrors :
        last' = [op |-> "connect_fails", error |-> e,
                 client_close |-> [sent |-> FALSE, code |-> 0, reason |-> ""]]
    /\ UNCHANGED <<learn_vars, whitelist, limiter, ws_filter, ws_learner, pending_requests,
                   entity_subscriptions, c2u, u2c>>
    /\ UNCHANGED <<loop, relay>>

\* websockets.connect raises: the handler closes the client socket with the
\* error as reason; the pumps are never started
connect_fails ==
    /\ pc = "accepted"
    /\ pc' = "closed"
    /\ \E e \in ConnectErrors :
        last' = [op |-> "connect_fails", error |-> e,
                 client_close |-> [sent |-> TRUE, code |-> 1011, reason |-> e]]
    /\ UNCHANGED <<learn_vars, whitelist, limiter, ws_filter, ws_learner, pending_requests,
                   entity_subscriptions, c2u, u2c>>
    /\ UNCHANGED <<loop, relay>>

\* the text frame is a list request that carries an id
ListRequest(frame) ==
    /\ frame.kind = "text"
    /\ frame.valid
    /\ IsDict(frame.data)
    /\ Get(frame.data.v, "type") \in {S(t) : t \in TRACKED_LIST_TYPES}
    /\ Get(frame.data.v, "id") \in Ids

\* the text frame is a result frame that carries an id
ResultReply(frame) ==
    /\ frame.kind = "text"
    /\ frame.valid
    /\ IsDict(frame.data)
    /\ Get(frame.data.v, "type") = S("result")
    /\ Get(frame.data.v, "id") \in Ids

\* the count, per id, of the list requests sent to the upstream that the
\* upstream has not answered yet: a list request sent adds one (up to
\* MaxOutstanding), a result frame of the upstream with that id takes one off
\* and is then a reply to a list request
Counted(direction, received, sent) ==
    IF direction = "to_upstream" /\ sent # <<>> /\ ListRequest(received)
        THEN [relay EXCEPT
                !.outstanding[Get(received.data.v, "id")] =
                    IF @ < MaxOutstanding THEN @ + 1 ELSE @,
                !.reused = @ \/ relay.outstanding[Get(received.data.v, "id")] > 0,
                !.replied = FALSE]
    ELSE IF /\ direction = "to_client"
            /\ ResultReply(received)
            /\ relay.outstanding[Get(received.data.v, "id")] > 0
        THEN [relay EXCEPT !.outstanding[Get(received.data.v, "id")] = @ - 1,
                           !.replied = TRUE]
    ELSE [relay EXCEPT !.replied = FALSE]

\* the history with the frame a pump received in a direction added, and the
\* frame it sent on for it placed before the frames sent earlier
Relayed_overtaking(direction, received, sent) ==
    IF relay.counting THEN Counted(direction, received, sent)
    ELSE IF ~relay.recording THEN relay
    ELSE [relay EXCEPT ![direction] =
            [received |-> Append(@.received, received),
             forwarded |-> [k \in 1..Len(sent) |->
                                [of |-> Len(@.received) + 1, frame |-> sent[k]]]
                           \o @.forwarded]]

\* the history with the frame a pump received in a direction added, and
\* after the frames sent so far the frame it sent on for it (sent is empty
\* when the pump dropped the frame)
Relayed(direction, received, sent) ==
    IF relay.counting THEN Counted(direction, received, sent)
    ELSE IF ~relay.recording THEN relay
    ELSE [relay EXCEPT ![direction] =
            [received |-> Append(@.received, received),
             forwarded |-> @.forwarded \o
                           [k \in 1..Len(sent) |->
                                [of |-> Len(@.received) + 1, frame |-> sent[k]]]]]

\* the history, where one is kept, has room for another frame
RelayRoom ==
    relay.recording =>
        Len(relay.to_upstream.received) + Len(relay.to_client.received) < MaxRelayed

\* client_to_upstream leaving its loop after a rejection (break for continue)
ClientTextPumped_break_on_reject(data, r) ==
    LET forwarded == client_text_forwarded(ws_filter, r)
        send_fails == forwarded /\ u2c = "closed"
    IN  /\ pending_requests' = r.pending
        /\ entity_subscriptions' = r.subs
        /\ c2u' = IF r.raised \/ send_fails THEN "failed"
                  ELSE IF ~forwarded THEN "done" ELSE "running"
        /\ last' = PumpStep("client_text", data, ws_filter, r.raised, r.allowed,
                            IF forwarded /\ ~send_fails THEN <<data>> ELSE <<>>,
                            IF ~r.raised /\ ~r.allowed THEN r.error_response ELSE <<>>)
        /\ relay' = Relayed("to_upstream", data,
                            IF forwarded /\ ~send_fails THEN <<data>> ELSE <<>>)

\* the rest of an iteration of client_to_upstream on the text frame data, r
\* being what the filter returned (allowed when no filter is attached)
ClientTextPumped(data, r) ==
    LET forwarded == client_text_forwarded(ws_filter, r)
        \* a send on a socket whose peer has gone raises
        send_fails == forwarded /\ u2c = "closed"
    IN  /\ pending_requests' = r.pending
        /\ entity_subscriptions' = r.subs
        /\ c2u' = IF r.raised \/ send_fails THEN "failed" ELSE "running"
        /\ last' = PumpStep("client_text", data, ws_filter, r.raised, r.allowed,
                            IF forwarded /\ ~send_fails THEN <<data>> ELSE <<>>,
                            IF ~r.raised /\ ~r.allowed THEN r.error_response ELSE <<>>)
        /\ relay' = Relayed("to_upstream", data,
                            IF forwarded /\ ~send_fails THEN <<data>> ELSE <<>>)

\* client_to_upstream takes a text frame
client_text ==
    /\ pc = "open"
    /\ c2u = "running"
    /\ RelayRoom
    /\ \E data \in ConnClientFrames :
        \E learned \in PumpLearned(ws_learner, whitelist, data) :
            /\ whitelist' = learned
            /\ ClientTextPumped(data,
                                IF ws_filter
                                    THEN filter_client_message(learned, pending_requests,
                                                               entity_subscriptions, data)
                                ELSE ClientResult(FALSE, TRUE, <<>>, pending_requests,
                                                  entity_subscriptions))
    /\ UNCHANGED <<learn_vars, limiter, ws_filter, ws_learner, u2c, pc>>
    /\ UNCHANGED loop

\* client_to_upstream takes a binary frame
client_binary ==
    /\ pc = "open"
    /\ c2u = "running"
    /\ RelayRoom
    /\ LET forwarded == binary_forwarded(ws_filter)
           send_fails == forwarded /\ u2c = "closed"
       IN  /\ c2u' = IF send_fails THEN "failed" ELSE "running"
           /\ last' = PumpStep("client_binary", Binary, FALSE, FALSE, FALSE,
                               IF forwarded /\ ~send_fails THEN <<Binary>> ELSE <<>>, <<>>)
           /\ relay' = Relayed("to_upstream", Binary,
                               IF forwarded /\ ~send_fails THEN <<Binary>> ELSE <<>>)
    /\ UNCHANGED <<learn_vars, whitelist, limiter, ws_filter, ws_learner, pending_requests,
                   entity_subscriptions, u2c, pc>>
    /\ UNCHANGED loop

\* client_to_upstream sees the client leave
client_disconnect ==
    /\ pc = "open"
    /\ c2u = "running"
    /\ c2u' = "disconnected"
    /\ last' = [op |-> "client_disconnect"]
    /\ UNCHANGED <<learn_vars, whitelist, limiter, ws_filter, ws_learner, pending_requests,
                   entity_subscriptions, u2c, pc>>
    /\ UNCHANGED <<loop, relay>>

\* the rest of an iteration of upstream_to_client on the text frame message,
\* r being what the filter returned (the frame itself when no filter is attached)
UpstreamTextPumped(message, r) ==
    LET send_fails == ~r.raised /\ r.out # <<>> /\ c2u = "disconnected"
    IN  /\ pending_requests' = r.pending
        /\ u2c' = IF r.raised \/ send_fails THEN "failed" ELSE "running"
        /\ last' = PumpStep("upstream_text", message, ws_filter, r.raised,
                            ~r.raised /\ r.out # <<>>, <<>>,
                            IF r.raised \/ send_fails THEN <<>> ELSE r.out)
        /\ relay' = Relayed("to_client", message,
                            IF r.raised \/ send_fails THEN <<>> ELSE r.out)

\* upstream_to_client takes a text frame
upstream_text ==
    /\ pc = "open"
    /\ u2c = "running"
    /\ RelayRoom
    /\ \E message \in UpstreamFrames :
        \E learned \in PumpLearned(ws_learner, whitelist, message) :
            /\ whitelist' = learned
            /\ UpstreamTextPumped(message,
                                  IF ws_filter
                                      THEN filter_server_message(learned, pending_requests,
                                                                 entity_subscriptions, message)
                                  ELSE ServerResult(FALSE, <<message>>, pending_requests))
    /\ UNCHANGED <<learn_vars, limiter, ws_filter, ws_learner, entity_subscriptions, c2u,
                   pc>>
    /\ UNCHANGED loop

\* upstream_to_client takes a binary frame
upstream_binary ==
    /\ pc = "open"
    /\ u2c = "running"
    /\ RelayRoom
    /\ LET forwarded == binary_forwarded(ws_filter)
           send_fails == forwarded /\ c2u = "disconnected"
       IN  /\ u2c' = IF send_fails THEN "failed" ELSE "running"
           /\ last' = PumpStep("upstream_binary", Binary, FALSE, FALSE, FALSE, <<>>,
                               IF forwarded /\ ~send_fails THEN <<Binary>> ELSE <<>>)
           /\ relay' = Relayed("to_client", Binary,
                               IF forwarded /\ ~send_fails THEN <<Binary>> ELSE <<>>)
    /\ UNCHANGED <<learn_vars, whitelist, limiter, ws_filter, ws_learner, pending_requests,
                   entity_subscriptions, c2u, pc>>
    /\ UNCHANGED loop

\* upstream_to_client sees the upstream close
upstream_close ==
    /\ pc = "open"
    /\ u2c = "running"
    /\ u2c' = "closed"
    /\ last' = [op |-> "upstream_close"]
    /\ UNCHANGED <<learn_vars, whitelist, limiter, ws_filter, ws_learner, pending_requests,
                   entity_subscriptions, c2u, pc>>
    /\ UNCHANGED <<loop, relay>>

\* asyncio.gather returns once both pumps have ended and the upstream socket
\* is left
gather_returns ==
    /\ pc = "open"
    /\ c2u # "running"
    /\ u2c # "running"
    /\ pc' = "closed"
    /\ last' = [op |-> "gather_returns"]
    /\ UNCHANGED <<learn_vars, whitelist, limiter, ws_filter, ws_learner, pending_requests,
                   entity_subscriptions, c2u, u2c>>
    /\ UNCHANGED <<loop, relay>>

Next ==
    \/ connect_succeeds
    \/ connect_fails
    \/ client_text
    \/ client_binary
    \/ client_disconnect
    \/ upstream_text
    \/ upstream_binary
    \/ upstream_close
    \/ gather_returns

Spec == Init /\ [][Next]_vars

\* C1: with a filter attached, client_to_upstream sends a frame upstream only
\* when it is a text frame for which filter_client_message returned allowed,
\* and then that very frame; a rejected frame and a binary frame are not sent.
C1_OnlyAllowedReachUpstream ==
    (ws_filter /\ last.op \in {"client_text", "client_binary"}) =>
        /\ last.to_upstream # <<>> =>
              /\ last.op = "client_text"
              /\ last.filtered /\ ~last.raised /\ last.allowed
              /\ filter_client_message(whitelist, <<>>, {}, last.message).allowed
              /\ last.to_upstream = <<last.message>>
        /\ last.op = "client_binary" => last.to_upstream = <<>>

\* the filter has rejected a client text frame: the client got the error frame
\* and nothing went upstream
C1_Witness ==
    /\ ws_filter
    /\ last.op = "client_text"
    /\ ~last.raised /\ ~last.allowed
    /\ last.to_upstream = <<>>
    /\ last.to_client # <<>>

\* every string of a JSON value: string values and dict keys, at any depth
RECURSIVE StringsIn(_)
StringsIn(x) ==
    CASE IsStr(x)  -> {x.v}
      [] IsList(x) -> UNION {StringsIn(x.v[i]) : i \in 1..Len(x.v)}
      [] IsDict(x) -> DOMAIN x.v \cup UNION {StringsIn(x.v[k]) : k \in DOMAIN x.v}
      [] OTHER     -> {}

\* the entity identifiers a text frame contains
EntitiesIn(frame) ==
    IF frame.kind = "text" /\ frame.valid
        THEN {s \in StringsIn(frame.data) : EntityShape(s)}
    ELSE {}

\* C2: with a filter attached, no text frame upstream_to_client delivers to the
\* client contains an entity identifier the entities allowlist rejects.
C2_NoForeignEntityDelivered ==
    (ws_filter /\ last.op = "upstream_text") =>
        \A i \in 1..Len(last.to_client) :
            \A e \in EntitiesIn(last.to_client[i]) : is_entity_allowed(whitelist, e)

\* what the filter does guarantee: the result of a tracked list request and the
\* events of a subscribe_entities subscription are delivered without any
\* entity the allowlist rejects
TrackedFramesFiltered ==
    (ws_filter /\ last.op = "upstream_text" /\ last.allowed /\ last.to_client # <<>>
        /\ last.to_client[1].fmt = "dumps") =>
        \A e \in EntitiesIn(last.to_client[1]) : is_entity_allowed(whitelist, e)

\* the call was on a subscribe_events frame
SubscribeEventsCall == ClientCall /\ Get(last.message.data.v, "type") = S("subscribe_events")

\* the event type the frame names is a built-in allowed event or an override
EventTypePermitted ==
    /\ "event_type" \in DOMAIN last.message.data.v
    /\ \/ last.message.data.v["event_type"].v \in ALLOWED_EVENT_TYPES
       \/ \E i \in 1..Len(whitelist.allowed_event_types) :
              whitelist.allowed_event_types[i] = last.message.data.v["event_type"].v

\* C11: a subscribe_events frame is allowed only if its event_type is a
\* built-in allowed event or in allowed_event_types; without event_type it is
\* rejected with 'subscribe_events requires event_type parameter', and with
\* any other event_type it is rejected.
C11_SubscribeEventsGate ==
    SubscribeEventsCall =>
        /\ last.allowed => EventTypePermitted
        /\ "event_type" \notin DOMAIN last.message.data.v =>
              RejectedWith("subscribe_events requires event_type parameter")
        /\ ("event_type" \in DOMAIN last.message.data.v /\ ~EventTypePermitted) =>
              RejectedWith("Event type not allowed: " \o last.message.data.v["event_type"].v)
        /\ EventTypePermitted => ~last.raised /\ last.allowed

\* an allowlist with overrides has refused a subscription to an event type that
\* is neither built in nor overridden
C11_Witness ==
    /\ SubscribeEventsCall
    /\ whitelist.allowed_event_types # <<>>
    /\ Get(last.message.data.v, "event_type") = S("call_service")
    /\ RejectedWith("Event type not allowed: call_service")

\* the last step handed filter_server_message an event frame
EventCall ==
    /\ last.op = "filter_server_message"
    /\ last.message.valid
    /\ IsDict(last.message.data)
    /\ Get(last.message.data.v, "type") = S("event")

\* ... whose id an accepted subscribe_entities request has recorded
SubscribedEvent ==
    /\ EventCall
    /\ last.request.allowed
    /\ LET req == last.request.message.data.v IN
       /\ "id" \in DOMAIN req
       /\ req["type"] = S("subscribe_entities")
       /\ Get(last.message.data.v, "id") = req["id"]

LastEvent == GetD(last.message.data.v, "event", EmptyDict)

\* the entries of a sub-container whose entity the allowlist admits: of a map
\* for a and c, of a list for r; a sub-container of another type has none
AllowedOfMap(k) ==
    IF k \in DOMAIN LastEvent.v /\ IsDict(LastEvent.v[k])
        THEN LET m == LastEvent.v[k].v
                 keep == {e \in DOMAIN m : is_entity_allowed(whitelist, e)}
             IN  [e \in keep |-> m[e]]
    ELSE <<>>

AllowedOfList(k) ==
    IF k \in DOMAIN LastEvent.v /\ IsList(LastEvent.v[k])
        THEN LET q == LastEvent.v[k].v
             IN  SelectSeqBy(q, {x \in Range(q) : IsStr(x) /\ is_entity_allowed(whitelist, x.v)})
    ELSE <<>>

\* the event the client is to see: the non-empty filtered sub-containers
ExpectedDelta ==
    LET keys == (IF DOMAIN AllowedOfMap("a") # {} THEN {"a"} ELSE {})
                    \cup (IF DOMAIN AllowedOfMap("c") # {} THEN {"c"} ELSE {})
                    \cup (IF AllowedOfList("r") # <<>> THEN {"r"} ELSE {})
    IN  [k \in keys |-> IF k = "r" THEN L(AllowedOfList("r")) ELSE D(AllowedOfMap(k))]

BusEventCall ==
    /\ EventCall
    /\ Get(last.message.data.v, "id") \notin entity_subscriptions

\* the entity_id a state_changed event names in its data, as a sequence of at
\* most one string
NamedEntity ==
    LET data == GetD(LastEvent.v, "data", EmptyDict) IN
    IF /\ Get(LastEvent.v, "event_type") = S("state_changed")
       /\ IsDict(data)
       /\ IsStr(Get(data.v, "entity_id"))
        THEN <<Get(data.v, "entity_id").v>>
    ELSE <<>>

\* the frame was dropped / forwarded as the very text received
Dropped == ~last.raised /\ last.out = <<>>
ForwardedUnchanged == ~last.raised /\ last.out = <<last.message>>

LearnModeConnection == ws_learner /\ ~ws_filter

\* C14: in learn mode every client frame, text or binary, is sent to the
\* upstream as it came and every upstream frame is sent to the client as it
\* came, as long as the receiving socket is still there; nothing else is sent
\* and the filter's tables stay empty.
C14_LearnModeTransparent ==
    LearnModeConnection =>
        /\ last.op \in {"client_text", "client_binary"} =>
              /\ u2c # "closed" => last.to_upstream = <<last.message>>
              /\ last.to_client = <<>>
              /\ ~last.raised
        /\ last.op \in {"upstream_text", "upstream_binary"} =>
              /\ c2u # "disconnected" => last.to_client = <<last.message>>
              /\ last.to_upstream = <<>>
              /\ ~last.raised
        /\ pending_requests = <<>>
        /\ entity_subscriptions = {}

\* a learn mode connection has relayed a binary frame after the learner took
\* an entity the allowlist did not have from a text frame
C14_Witness ==
    /\ LearnModeConnection
    /\ "light.bedroom" \in Range(whitelist.entities)
    /\ last.op = "client_binary"
    /\ last.to_upstream = <<Binary>>

(***************************************************************************)
(* SpecLimit: the service running in limit mode: HTTP requests and the     *)
(* frames of one WebSocket connection, in any order.                       *)
(***************************************************************************)
\* the requests made to the running service: the state of an entity and
\* history over a period, with and without an entity filter
RunPaths == {"/api/states/light.bedroom", "/api/history/period/2024-01-01"}
RunQueries == {"", "filter_entity_id=light.bedroom"}

\* proxy_request on a request made while the service runs
http_request ==
    /\ pc \in {"open", "closed"}
    /\ observed < MaxRequests
    /\ \E url_path \in RunPaths, query \in RunQueries :
        ProxyRequestHandled(url_path, "GET", query)
    /\ UNCHANGED <<limiter, ws_filter, ws_learner, pending_requests,
                   entity_subscriptions, c2u, u2c, pc>>
    /\ UNCHANGED <<loop, relay>>

\* lifespan after the yield, leaving the file as it was
shutdown_without_save ==
    /\ pc \in {"open", "closed"}
    /\ pc' = "stopped"
    /\ last' = [op |-> "shutdown"]
    /\ UNCHANGED <<learn_vars, whitelist, limiter, ws_filter, ws_learner,
                   pending_requests, entity_subscriptions, c2u, u2c>>
    /\ UNCHANGED <<loop, relay>>

\* lifespan after the yield: the service stops, and with a learner the
\* allowlist is saved
shutdown ==
    /\ pc \in {"open", "closed"}
    /\ pc' = "stopped"
    /\ config_file' = IF learner THEN save(whitelist, config_file) ELSE config_file
    /\ last' = [op |-> "shutdown"]
    /\ UNCHANGED <<learner, request_count, observed, saves, whitelist, limiter, ws_filter,
                   ws_learner, pending_requests, entity_subscriptions, c2u, u2c>>
    /\ UNCHANGED <<loop, relay>>

\* lifespan in limit mode (the file is loaded, a Limiter is made) and a
\* connection accepted with a filter
InitLimit ==
    /\ whitelist \in Whitelists
    /\ limiter = TRUE
    /\ ws_filter = TRUE
    /\ ws_learner = FALSE
    /\ pending_requests = <<>>
    /\ entity_subscriptions = {}
    /\ c2u = "running"
    /\ u2c = "running"
    /\ pc = "open"
    /\ last = NoStep
    /\ loop = NoTasks
    /\ relay = NoRelay
    /\ NoLearner

NextLimit ==
    \/ http_request
    \/ client_text
    \/ client_binary
    \/ client_disconnect
    \/ upstream_text
    \/ upstream_binary
    \/ upstream_close
    \/ gather_returns
    \/ shutdown

SpecLimit == InitLimit /\ [][NextLimit]_vars

\* C15: in limit mode the allowlist is, in every state, the one load() read
\* from the config file at startup, whatever HTTP requests and WebSocket
\* frames have been handled, and the file is never written.
C15_LimitModeAllowlistFixed ==
    limiter =>
        /\ whitelist = load(config_file)
        /\ \E wl \in Whitelists : config_file = FileOf(wl)

\* limit mode has forwarded an HTTP request after the connection's filter
\* recorded a subscribe_entities subscription
C15_Witness ==
    /\ limiter
    /\ entity_subscriptions # {}
    /\ last.op = "proxy_request"
    /\ last.forwarded

(***************************************************************************)
(* SpecAdd: two calls of the add_* methods in a row on an allowlist.       *)
(***************************************************************************)
AddKinds == {"endpoint", "entity", "device", "area"}

\* what is added: entries the test allowlist has, entries one of its wildcard
\* or placeholder entries covers, entries nothing covers, and wildcards
AddArguments ==
    [endpoint |-> {"/api/states", "/api/states/{entity_id}", "/api/states/light.bedroom",
                   "/api/config", "/api/*", ""},
     entity   |-> EntityNames \cup {"sensor.weather_*", "light.*", ""},
     device   |-> DeviceNames \cup {"device_*"},
     area     |-> AreaNames \cup {"*"}]

\* the add_* method of a kind
add(kind, wl, x) ==
    CASE kind = "endpoint" -> add_endpoint(wl, x)
      [] kind = "entity"   -> add_entity(wl, x)
      [] kind = "device"   -> add_device(wl, x)
      [] kind = "area"     -> add_area(wl, x)

\* the is_*_allowed method of a kind
is_allowed(kind, wl, x) ==
    CASE kind = "endpoint" -> is_endpoint_allowed(wl, x)
      [] kind = "entity"   -> is_entity_allowed(wl, x)
      [] kind = "device"   -> is_device_allowed(wl, x)
      [] kind = "area"     -> is_area_allowed(wl, x)

InitAdd ==
    /\ whitelist \in Whitelists
    /\ limiter = FALSE
    /\ ws_filter = FALSE
    /\ ws_learner = FALSE
    /\ pending_requests = <<>>
    /\ entity_subscriptions = {}
    /\ c2u = "idle"
    /\ u2c = "idle"
    /\ pc = "first"
    /\ last = NoStep
    /\ loop = NoTasks
    /\ relay = NoRelay
    /\ learner = TRUE
    /\ request_count = 0
    /\ config_file = FileOf(whitelist)
    /\ observed = 0
    /\ saves = 0

\* the call add_<kind>(x), r being what it returns and leaves
AddCalled(kind, x, r) ==
    /\ whitelist' = r.wl
    /\ last' = [op |-> "add", kind |-> kind, x |-> x, added |-> r.added,
                before |-> whitelist, previous |-> last]

\* one of the four add_* methods is called
CallAdd ==
    /\ pc \in {"first", "second"}
    /\ \E kind \in AddKinds :
        \E x \in AddArguments[kind] : AddCalled(kind, x, add(kind, whitelist, x))
    /\ pc' = IF pc = "first" THEN "second" ELSE "done"
    /\ UNCHANGED <<learn_vars, limiter, ws_filter, ws_learner, pending_requests,
                   entity_subscriptions, c2u, u2c>>
    /\ UNCHANGED <<loop, relay>>

NextAdd == CallAdd

SpecAdd == InitAdd /\ [][NextAdd]_vars

\* the last step called add on an x that some entry of the allowlist matched
AddOfMatched ==
    last.op = "add" /\ is_allowed(last.kind, last.before, last.x)

\* the last two steps were the same add call
AddRepeated ==
    /\ last.op = "add"
    /\ last.previous.op = "add"
    /\ last.previous.kind = last.kind
    /\ last.previous.x = last.x

\* C16: add_<kind>(x) on an allowlist of which some entry matches x returns
\* False and leaves the allowlist as it was; and add_<kind>(x) called a second
\* time right after add_<kind>(x) returns False and leaves the allowlist the
\* first call left.
C16_AddIdempotent ==
    /\ AddOfMatched => ~last.added /\ whitelist = last.before
    /\ AddRepeated => ~last.added /\ whitelist = last.before

\* an add that appended was repeated, and an add of an entity that a wildcard
\* entry covers without naming it was made
C16_Witness ==
    /\ AddRepeated
    /\ last.previous.added
    /\ last.kind = "endpoint"
    /\ whitelist # last.previous.before
C16_WitnessCovered ==
    /\ AddOfMatched
    /\ last.x \notin Range(last.before.entities)
    /\ last.kind = "entity"

(***************************************************************************)
(* SpecNormalize: Learner._normalize_endpoint applied to a path and then   *)
(* to its own result.                                                      *)
(***************************************************************************)
NormalizePrefixes ==
    {"/api/states/", "/api/services/", "/api/camera_proxy/", "/api/history/period/",
     "/api/logbook/", "/api/custom/", "/"}

\* what follows the prefix: an entity, a domain and service, dates with and
\* without more text and segments, the placeholders of the templates, text of
\* almost the right shape, nothing, and slashes
NormalizeSuffixes ==
    {"sensor.temperature", "light/turn_on", "2024-01-01", "2024-01-01T00:00:00",
     "2024-01-01/states/light.bedroom", "{entity_id}", "{domain}/{service}",
     "{timestamp}", "Light.Bedroom", "light.bedroom/history", "light/turn_on/",
     "2024-1-1", "endpoint", "", "/"}

NormalizePaths == {p \o q : p \in NormalizePrefixes, q \in NormalizeSuffixes}

InitNormalize ==
    /\ whitelist = WL_EMPTY
    /\ limiter = FALSE
    /\ ws_filter = FALSE
    /\ ws_learner = FALSE
    /\ pending_requests = <<>>
    /\ entity_subscriptions = {}
    /\ c2u = "idle"
    /\ u2c = "idle"
    /\ pc = "first"
    /\ last \in {[op |-> "path", out |-> p] : p \in NormalizePaths}
    /\ loop = NoTasks
    /\ relay = NoRelay
    /\ learner = TRUE
    /\ request_count = 0
    /\ config_file = FileOf(whitelist)
    /\ observed = 0
    /\ saves = 0

\* _normalize_endpoint is called on what the step before left
CallNormalize ==
    /\ pc \in {"first", "second"}
    /\ last' = [op |-> "normalize", path |-> last.out,
                out |-> normalize_endpoint(last.out), previous |-> last]
    /\ pc' = IF pc = "first" THEN "second" ELSE "done"
    /\ UNCHANGED <<learn_vars, whitelist, limiter, ws_filter, ws_learner, pending_requests,
                   entity_subscriptions, c2u, u2c>>
    /\ UNCHANGED <<loop, relay>>

NextNormalize == CallNormalize

SpecNormalize == InitNormalize /\ [][NextNormalize]_vars

Templates ==
    {"/api/states/{entity_id}", "/api/services/{domain}/{service}",
     "/api/camera_proxy/{entity_id}", "/api/history/period/{timestamp}",
     "/api/logbook/{timestamp}"}

\* C17: normalize(normalize(p)) = normalize(p): the normalizer called on its
\* own result returns that result, for paths of each recognized shape and
\* for paths of no recognized shape.
C17_NormalizeIdempotent ==
    (last.op = "normalize" /\ last.previous.op = "normalize") => last.out = last.path

\* the second call was made on a template the first call produced from a
\* history path with a time and further segments
C17_Witness ==
    /\ last.op = "normalize"
    /\ last.previous.op = "normalize"
    /\ last.previous.path = "/api/history/period/2024-01-01/states/light.bedroom"
    /\ last.path = "/api/history/period/{timestamp}"
    /\ last.out \in Templates

(***************************************************************************)
(* SpecRequests: Learner.learn_from_request called on one request after    *)
(* another, on a learner that starts with an empty allowlist.              *)
(***************************************************************************)
StatePaths == {"/api/states/" \o e : e \in EntityNames}

\* the requests learned from: the state of each entity, and history over a
\* period, with queries that name no entity or one entity
LearnRequestPaths == StatePaths \cup {"/api/history/period/2024-01-01"}
LearnRequestQueries ==
    {"", "filter_entity_id=light.bedroom", "filter_entity_id=sensor.weather_temp"}

InitRequests ==
    /\ whitelist = WL_EMPTY
    /\ limiter = FALSE
    /\ ws_filter = FALSE
    /\ ws_learner = FALSE
    /\ pending_requests = <<>>
    /\ entity_subscriptions = {}
    /\ c2u = "idle"
    /\ u2c = "idle"
    /\ pc = "learning"
    /\ last = [op |-> "none", seen |-> {}]
    /\ loop = NoTasks
    /\ relay = NoRelay
    /\ learner = TRUE
    /\ request_count = 0
    /\ config_file = FileOf(WL_EMPTY)
    /\ observed = 0
    /\ saves = 0

\* learn_from_request(path, query); `seen` collects the paths given so far
CallLearnFromRequest ==
    /\ pc = "learning"
    /\ observed < MaxRequests
    /\ \E path \in LearnRequestPaths, query \in LearnRequestQueries :
        /\ whitelist' = learn_from_request(whitelist, path, query)
        /\ last' = [op |-> "learn_from_request", path |-> path, query |-> query,
                    seen |-> last.seen \cup {path}]
    /\ observed' = observed + 1
    /\ UNCHANGED <<learner, request_count, config_file, saves, limiter, ws_filter,
                   ws_learner, pending_requests, entity_subscriptions, c2u, u2c, pc>>
    /\ UNCHANGED <<loop, relay>>

NextRequests == CallLearnFromRequest

SpecRequests == InitRequests /\ [][NextRequests]_vars

\* every request learned so far was a request for the state of an entity
OnlyStateRequests == last.op = "learn_from_request" /\ last.seen \subseteq StatePaths

\* C18: from an empty allowlist, after any number of learned requests to
\* /api/states/<dom>.<obj>, in any order and with repeats, the endpoints are
\* the single entry /api/states/{entity_id} and the entities are the entities
\* requested, each listed once; nothing else is learned.
C18_StateRequestsLearned ==
    OnlyStateRequests =>
        /\ whitelist.endpoints = <<"/api/states/{entity_id}">>
        /\ Range(whitelist.entities) = {After(p, "/api/states/") : p \in last.seen}
        /\ Len(whitelist.entities) = Cardinality(last.seen)
        /\ whitelist.devices = <<>>
        /\ whitelist.areas = <<>>

\* more requests than entities: some state request was repeated, and three
\* entities were learned
C18_Witness ==
    /\ OnlyStateRequests
    /\ Cardinality(last.seen) = 3
    /\ observed > 3

\* the request learned last was a history request whose query names an entity
HistoryRequestNaming(e) ==
    /\ last.op = "learn_from_request"
    /\ StartsWith(last.path, "/api/history/period/")
    /\ last.query = "filter_entity_id=" \o e

\* C19: learn_from_request on a history request whose query names an entity
\* leaves that entity in the entities allowlist.
C19_HistoryQueryLearned ==
    \A e \in EntityNames :
        HistoryRequestNaming(e) => e \in Range(whitelist.entities)

(***************************************************************************)
(* SpecLearn: the service running in learn mode, one HTTP request after    *)
(* another.                                                                *)
(***************************************************************************)
\* the allowlists learn mode starts from: no file, or a file to append to
LearnStarts == {WL_EMPTY, WL_TEST}

\* lifespan in learn mode: a Learner on the loaded allowlist, no Limiter
InitLearn ==
    /\ whitelist \in LearnStarts
    /\ limiter = FALSE
    /\ ws_filter = FALSE
    /\ ws_learner = FALSE
    /\ pending_requests = <<>>
    /\ entity_subscriptions = {}
    /\ c2u = "idle"
    /\ u2c = "idle"
    /\ pc = "open"
    /\ last = NoStep
    /\ loop = NoTasks
    /\ relay = NoRelay
    /\ learner = TRUE
    /\ request_count = 0
    /\ config_file = FileOf(whitelist)
    /\ observed = 0
    /\ saves = 0

NextLearn == http_request \/ shutdown

SpecLearn == InitLearn /\ [][NextLearn]_vars

\* every entry of the allowlist's four learned lists is in the file
FileHasAllLearned ==
    /\ Range(whitelist.endpoints) \subseteq Range(config_file.endpoints)
    /\ Range(whitelist.entities) \subseteq Range(config_file.entities)
    /\ Range(whitelist.devices) \subseteq Range(config_file.devices)
    /\ Range(whitelist.areas) \subseteq Range(config_file.areas)

\* C20: after n observed requests the counter is n mod save_interval, which
\* is in 0..save_interval-1, and floor(n / save_interval) periodic saves have
\* been made: the counter advances by one per request and the request that
\* brings it to save_interval saves the allowlist and resets it to 0.
C20_PeriodicSave ==
    learner =>
        /\ request_count = observed % save_interval
        /\ request_count \in 0..(save_interval - 1)
        /\ saves = observed \div save_interval
        /\ (saves = 0 /\ pc # "stopped") => \E wl \in LearnStarts : config_file = FileOf(wl)
        /\ (request_count = 0 /\ observed > 0) => FileHasAllLearned

\* the learner has observed two full intervals and one request more, and has
\* saved entries it learned
C20_Witness ==
    /\ learner
    /\ observed = 2 * save_interval + 1
    /\ saves = 2
    /\ request_count = 1
    /\ "/api/states/{entity_id}" \in Range(config_file.endpoints)
    /\ "light.bedroom" \in Range(config_file.entities)

\* C21: in learn mode, once the service has shut down, every endpoint,
\* entity, device and area of the allowlist, learned before or after the last
\* periodic save, is in the config file.
C21_SavedAtShutdown ==
    (learner /\ pc = "stopped") => FileHasAllLearned

\* the service shut down between two periodic saves, and the file holds what
\* was learned from a request and from a response since the run began
C21_Witness ==
    /\ learner
    /\ pc = "stopped"
    /\ saves = 0
    /\ request_count = 3
    /\ "/api/states/{entity_id}" \in Range(config_file.endpoints)
    /\ "light.bedroom" \in Range(config_file.entities)
    /\ "device_abc123" \in Range(config_file.devices)

\* C22: once one pump of the connection has ended, the other pump is
\* cancelled: upstream_to_client takes no frame after client_to_upstream has
\* ended, and client_to_upstream takes no frame after upstream_to_client has
\* ended.
C22_OtherPumpCancelled ==
    /\ last.op \in {"upstream_text", "upstream_binary"} => c2u = "running"
    /\ last.op \in {"client_text", "client_binary"} => u2c = "running"

\* the connection ended without its pumps having been started
EndedBeforePumps == pc = "closed" /\ c2u = "idle" /\ u2c = "idle"

\* C23: when opening the upstream socket fails after the client socket was
\* accepted, the client socket is closed with code 1011 and the error text as
\* reason, and no pump step follows: no frame is relayed in either direction.
C23_ConnectFailureCloses ==
    /\ EndedBeforePumps =>
          /\ last.op = "connect_fails"
          /\ last.client_close = [sent |-> TRUE, code |-> 1011, reason |-> last.error]
    /\ last.op \in {"client_text", "client_binary", "upstream_text", "upstream_binary"} =>
          c2u # "idle" /\ u2c # "idle"

\* the handshake with the upstream was refused on a connection of limit mode
C23_Witness ==
    /\ EndedBeforePumps
    /\ ws_filter
    /\ last.op = "connect_fails"
    /\ last.error = "server rejected WebSocket connection: HTTP 403"
    /\ last.client_close.reason = last.error

(***************************************************************************)
(* Learn mode under the event loop: the handlers of two HTTP requests and  *)
(* the two pumps of a connection share the allowlist.  uvicorn.run serves  *)
(* the application on one asyncio event loop, which runs one task at a     *)
(* time and leaves it only at an await.                                    *)
(***************************************************************************)
HandlerTasks == {"proxy_request_1", "proxy_request_2"}
PumpTasks == {"client_to_upstream", "upstream_to_client"}
Tasks == HandlerTasks \cup PumpTasks

\* the positions where a task waits in an await
Suspended == {"await_forward", "await_receive", "await_send"}

NoIds == [entities |-> {}, devices |-> {}, areas |-> {}]

\* the frames the pumps receive: one that names an entity, a device and an
\* area, and one that is no JSON
TaskFrames ==
    {Text("raw", Obj({<<"entity_id", S("light.bedroom")>>,
                      <<"device_id", S("device_unknown")>>,
                      <<"area_id", S("bedroom")>>})),
     BadText}

\* task t has come to position pos, and the event loop runs task running next
\* ("none": any task whose await has completed)
TaskAt(t, pos, ids, running) ==
    [running |-> running, at |-> [loop.at EXCEPT ![t] = [pos |-> pos, ids |-> ids]]]

InitTasks ==
    /\ whitelist \in LearnStarts
    /\ limiter = FALSE
    /\ ws_filter = FALSE
    /\ ws_learner = TRUE
    /\ pending_requests = <<>>
    /\ entity_subscriptions = {}
    /\ c2u = "running"
    /\ u2c = "running"
    /\ pc = "open"
    /\ last = NoStep
    /\ loop = [running |-> "none",
               at |-> [t \in Tasks |->
                         [pos |-> IF t \in HandlerTasks THEN "await_forward" ELSE "await_receive",
                          ids |-> NoIds]]]
    /\ relay = NoRelay
    /\ learner = TRUE
    /\ request_count = 0
    /\ config_file = FileOf(whitelist)
    /\ observed = 0
    /\ saves = 0

\* proxy_request resumed from forward_request, were learn_from_request a
\* coroutine that gives the event loop back before the next statement
task_learn_from_request_yielding(t) ==
    /\ pc = "open"
    /\ loop.running = "none"
    /\ loop.at[t].pos = "await_forward"
    /\ observed < MaxRequests
    /\ \E url_path \in RunPaths, query \in RunQueries :
        whitelist' = learn_from_request(whitelist, "/" \o After(url_path, "/"), query)
    /\ loop' = TaskAt(t, "learned_request", NoIds, "none")
    /\ last' = [op |-> "learn_from_request", task |-> t, saved |-> FALSE]
    /\ UNCHANGED <<learn_vars, limiter, ws_filter, ws_learner, pending_requests,
                   entity_subscriptions, c2u, u2c, pc, relay>>

\* proxy_request resumed from "await proxy.forward_request": the learn branch
\* calls learner.learn_from_request and goes on to the next statement
task_learn_from_request(t) ==
    /\ pc = "open"
    /\ loop.running = "none"
    /\ loop.at[t].pos = "await_forward"
    /\ observed < MaxRequests
    /\ \E url_path \in RunPaths, query \in RunQueries :
        whitelist' = learn_from_request(whitelist, "/" \o After(url_path, "/"), query)
    /\ loop' = TaskAt(t, "learned_request", NoIds, t)
    /\ last' = [op |-> "learn_from_request", task |-> t, saved |-> FALSE]
    /\ UNCHANGED <<learn_vars, limiter, ws_filter, ws_learner, pending_requests,
                   entity_subscriptions, c2u, u2c, pc, relay>>

\* the next statement of the learn branch: learner.learn_from_response
task_learn_from_response(t) ==
    /\ pc = "open"
    /\ loop.running = t
    /\ loop.at[t].pos = "learned_request"
    /\ \E response \in UpstreamResponses :
        whitelist' \in learn_from_response(whitelist, response)
    /\ loop' = TaskAt(t, "learned_response", NoIds, t)
    /\ last' = [op |-> "learn_from_response", task |-> t, saved |-> FALSE]
    /\ UNCHANGED <<learn_vars, limiter, ws_filter, ws_learner, pending_requests,
                   entity_subscriptions, c2u, u2c, pc, relay>>

\* the last statement of the learn branch: learner.maybe_save; the handler
\* returns, and the task serves the next request up to its await
task_maybe_save(t, r) ==
    /\ pc = "open"
    /\ loop.running = t
    /\ loop.at[t].pos = "learned_response"
    /\ LearnBranchEnds(whitelist, r)
    /\ loop' = TaskAt(t, "await_forward", NoIds, "none")
    /\ last' = [op |-> "maybe_save", task |-> t, saved |-> r.saved]
    /\ UNCHANGED <<limiter, ws_filter, ws_learner, pending_requests,
                   entity_subscriptions, c2u, u2c, pc, relay>>

\* a pump resumed from its receive: learn_from_websocket_message parses the
\* frame and runs its first loop, over the entity ids
pump_learn_entities(t) ==
    /\ pc = "open"
    /\ loop.running = "none"
    /\ loop.at[t].pos = "await_receive"
    /\ \E frame \in TaskFrames :
        IF ~frame.valid
            THEN /\ loop' = TaskAt(t, "await_send", NoIds, "none")
                 /\ UNCHANGED whitelist
        ELSE /\ \E q \in Orderings(extract_ids_from_json(frame.data).entities) :
                    whitelist' = AddEach(whitelist, "entity", q)
             /\ loop' = TaskAt(t, "learned_entities", extract_ids_from_json(frame.data), t)
    /\ last' = [op |-> "learn_from_websocket_message", task |-> t, saved |-> FALSE]
    /\ UNCHANGED <<learn_vars, limiter, ws_filter, ws_learner, pending_requests,
                   entity_subscriptions, c2u, u2c, pc, relay>>

\* the second loop of learn_from_websocket_message, over the device ids
pump_learn_devices(t) ==
    /\ pc = "open"
    /\ loop.running = t
    /\ loop.at[t].pos = "learned_entities"
    /\ \E q \in Orderings(loop.at[t].ids.devices) :
        whitelist' = AddEach(whitelist, "device", q)
    /\ loop' = TaskAt(t, "learned_devices", loop.at[t].ids, t)
    /\ last' = [op |-> "learn_from_websocket_message", task |-> t, saved |-> FALSE]
    /\ UNCHANGED <<learn_vars, limiter, ws_filter, ws_learner, pending_requests,
                   entity_subscriptions, c2u, u2c, pc, relay>>

\* the third loop, over the area ids; the pump then awaits the send of the
\* frame to the other side
pump_learn_areas(t) ==
    /\ pc = "open"
    /\ loop.running = t
    /\ loop.at[t].pos = "learned_devices"
    /\ \E q \in Orderings(loop.at[t].ids.areas) :
        whitelist' = AddEach(whitelist, "area", q)
    /\ loop' = TaskAt(t, "await_send", NoIds, "none")
    /\ last' = [op |-> "learn_from_websocket_message", task |-> t, saved |-> FALSE]
    /\ UNCHANGED <<learn_vars, limiter, ws_filter, ws_learner, pending_requests,
                   entity_subscriptions, c2u, u2c, pc, relay>>

\* the send of a pump completes and the pump awaits its next frame
pump_sent(t) ==
    /\ pc = "open"
    /\ loop.running = "none"
    /\ loop.at[t].pos = "await_send"
    /\ loop' = TaskAt(t, "await_receive", NoIds, "none")
    /\ last' = [op |-> "send", task |-> t, saved |-> FALSE]
    /\ UNCHANGED <<learn_vars, whitelist, limiter, ws_filter, ws_learner, pending_requests,
                   entity_subscriptions, c2u, u2c, pc, relay>>

NextTasks ==
    \/ \E t \in HandlerTasks : task_learn_from_request(t)
    \/ \E t \in HandlerTasks : task_learn_from_response(t)
    \/ \E t \in HandlerTasks : task_maybe_save(t, maybe_save(request_count))
    \/ \E t \in PumpTasks : pump_learn_entities(t)
    \/ \E t \in PumpTasks : pump_learn_devices(t)
    \/ \E t \in PumpTasks : pump_learn_areas(t)
    \/ \E t \in PumpTasks : pump_sent(t)

SpecTasks == InitTasks /\ [][NextTasks]_vars

\* the tasks that have begun a learn step and not finished it
InProgress == {t \in Tasks : loop.at[t].pos \notin Suspended}

\* C24: in learn mode the mutations of the allowlist by the HTTP handlers and
\* the pumps, and the periodic save, are serialized: at most one task is
\* inside a learn step at any time, it is the task the event loop runs, and
\* when a save has just been made no task is inside a learn step, so the save
\* wrote an allowlist on which every learn step begun had finished.
C24_LearnStepsSerialized ==
    learner /\ loop.running \in Tasks \cup {"none"} /\ DOMAIN loop.at = Tasks =>
        /\ Cardinality(InProgress) <= 1
        /\ InProgress = {t \in Tasks : loop.running = t}
        /\ (last.op = "maybe_save" /\ last.saved) => InProgress = {} /\ FileHasAllLearned

\* a periodic save was made by one handler while the other handler and both
\* pumps were suspended, the pumps between learning a frame and sending it
C24_Witness ==
    /\ DOMAIN loop.at = Tasks
    /\ last.op = "maybe_save"
    /\ last.saved
    /\ last.task = "proxy_request_2"
    /\ loop.at["client_to_upstream"].pos = "await_send"
    /\ loop.at["upstream_to_client"].pos = "await_send"
    /\ "bedroom" \in Range(config_file.areas)
    /\ "/api/history/period/{timestamp}" \in Range(config_file.endpoints)

(***************************************************************************)
(* A connection with the history of its frames kept.                       *)
(***************************************************************************)
NoFrames == [received |-> <<>>, forwarded |-> <<>>]

InitRelay ==
    /\ whitelist = WL_TEST
    /\ ws_filter \in BOOLEAN
    /\ ws_learner \in BOOLEAN
    /\ ~(ws_filter /\ ws_learner)
    /\ limiter = ~ws_learner
    /\ pending_requests = <<>>
    /\ entity_subscriptions = {}
    /\ c2u = "idle"
    /\ u2c = "idle"
    /\ pc = "accepted"
    /\ last = NoStep
    /\ loop = NoTasks
    /\ relay = [recording |-> TRUE, counting |-> FALSE,
                to_upstream |-> NoFrames, to_client |-> NoFrames]
    /\ learner = ws_learner
    /\ request_count = 0
    /\ config_file = FileOf(whitelist)
    /\ observed = 0
    /\ saves = 0

SpecRelay == InitRelay /\ [][Next]_vars

\* every frame forwarded in a direction was forwarded for a frame received in
\* that direction, and for frames received one after the other
InOrder(h) ==
    /\ \A i \in 1..Len(h.forwarded) : h.forwarded[i].of \in 1..Len(h.received)
    /\ \A i, j \in 1..Len(h.forwarded) : i < j => h.forwarded[i].of < h.forwarded[j].of

\* C25: in each direction the frames forwarded are, in the order they were
\* received, frames that were received: towards the upstream the received
\* frames themselves, towards the client the received frame or what the filter
\* made of it.  Each frame is filtered and sent, or dropped, within the step
\* that received it, so no frame is forwarded for a frame received later.
C25_OrderPreserved ==
    relay.recording =>
        /\ InOrder(relay.to_upstream)
        /\ InOrder(relay.to_client)
        /\ \A i \in 1..Len(relay.to_upstream.forwarded) :
              relay.to_upstream.forwarded[i].frame
                  = relay.to_upstream.received[relay.to_upstream.forwarded[i].of]
        /\ \A i \in 1..Len(relay.to_client.forwarded) :
              \/ relay.to_client.forwarded[i].frame
                     = relay.to_client.received[relay.to_client.forwarded[i].of]
              \/ /\ ws_filter
                 /\ relay.to_client.forwarded[i].frame.fmt = "dumps"
                 /\ relay.to_client.received[relay.to_client.forwarded[i].of].kind = "text"
        /\ last.op \in {"client_text", "client_binary"} /\ last.to_upstream # <<>> =>
              relay.to_upstream.forwarded[Len(relay.to_upstream.forwarded)].of
                  = Len(relay.to_upstream.received)
        /\ last.op \in {"upstream_text", "upstream_binary"} /\ last.to_client # <<>> =>
              relay.to_client.forwarded[Len(relay.to_client.forwarded)].of
                  = Len(relay.to_client.received)

\* with a filter attached the upstream sent two different frames and both
\* were forwarded, the first before the second
C25_Witness ==
    /\ relay.recording
    /\ ws_filter
    /\ Len(relay.to_client.received) = 2
    /\ Len(relay.to_client.forwarded) = 2
    /\ relay.to_client.forwarded[1].of = 1
    /\ relay.to_client.forwarded[2].of = 2
    /\ relay.to_client.forwarded[1].frame # relay.to_client.forwarded[2].frame

\* the step just taken was a pump taking a binary frame
BinaryStep == last.op \in {"client_binary", "upstream_binary"}

C26_WitnessLearn ==
    /\ LearnModeConnection
    /\ last.op = "client_binary"
    /\ last.to_upstream = <<Binary>>

(***************************************************************************)
(* Saving an allowlist and loading the file back.                          *)
(***************************************************************************)
\* allowlists to save: those of the tests, one with learned entries only and
\* one with an override only
SavedAllowlists ==
    Whitelists \cup
    {WhitelistConfig(<<"/api/states/{entity_id}">>, <<"light.bedroom">>, <<"device_unknown">>,
                     <<"bedroom">>, <<>>, <<>>, <<>>),
     WhitelistConfig(<<>>, <<>>, <<>>, <<>>, <<"render_template">>, <<>>, <<>>)}

\* what the file holds before the save
PriorFiles == {FileOf(wl) : wl \in SavedAllowlists}

InitSave ==
    /\ whitelist \in SavedAllowlists
    /\ limiter = FALSE
    /\ ws_filter = FALSE
    /\ ws_learner = FALSE
    /\ pending_requests = <<>>
    /\ entity_subscriptions = {}
    /\ c2u = "idle"
    /\ u2c = "idle"
    /\ pc = "save"
    /\ last = NoStep
    /\ loop = NoTasks
    /\ relay = NoRelay
    /\ learner = TRUE
    /\ request_count = 0
    /\ config_file \in PriorFiles
    /\ observed = 0
    /\ saves = 0

\* whitelist.save()
CallSave ==
    /\ pc = "save"
    /\ config_file' = save(whitelist, config_file)
    /\ pc' = "load"
    /\ last' = [op |-> "save", saved |-> whitelist, prior |-> config_file]
    /\ UNCHANGED <<whitelist, learner, request_count, observed, saves, limiter, ws_filter,
                   ws_learner, pending_requests, entity_subscriptions, c2u, u2c, loop, relay>>

\* whitelist.load() on the file the save left
CallLoad ==
    /\ pc = "load"
    /\ whitelist' = load(config_file)
    /\ pc' = "done"
    /\ last' = [op |-> "load", saved |-> last.saved, prior |-> last.prior]
    /\ UNCHANGED <<learn_vars, limiter, ws_filter, ws_learner, pending_requests,
                   entity_subscriptions, c2u, u2c, loop, relay>>

NextSave == CallSave \/ CallLoad

SpecSave == InitSave /\ [][NextSave]_vars

\* the seven keys of the file
ConfigKeys ==
    {"endpoints", "entities", "devices", "areas", "allowed_ws_types", "allowed_event_types",
     "allowed_services"}

\* C27: the allowlist loaded from the file after a save holds, on each of the
\* seven keys, the same set of entries as the allowlist that was saved,
\* whatever the file held before.
C27_SaveLoadRoundTrip ==
    last.op = "load" => \A key \in ConfigKeys : Range(whitelist[key]) = Range(last.saved[key])

\* what does hold: on the four learned keys the loaded allowlist holds the
\* saved entries and those the file had, on the three override keys those
\* the file had
SaveMerges ==
    last.op = "load" =>
        /\ \A key \in {"endpoints", "entities", "devices", "areas"} :
              Range(whitelist[key]) = Range(last.saved[key]) \cup Range(last.prior[key])
        /\ \A key \in {"allowed_ws_types", "allowed_event_types", "allowed_services"} :
              Range(whitelist[key]) = Range(last.prior[key])

\* C28: a request for /health, whatever its method, is answered by
\* health_check and the upstream is not contacted.
C28_HealthNeverForwarded ==
    (last.op \in {"health_check", "proxy_request"} /\ last.path = "/health") =>
        /\ last.op = "health_check"
        /\ ~last.forwarded

\* the call just made returned a rejection
ClientRejected == ClientCall /\ ~last.raised /\ ~last.allowed

\* the id of the frame given to the call, None when it has none
LastFrameId == Get(last.message.data.v, "id")

\* C29: every call of filter_client_message that rejects the frame returns one
\* error frame, a JSON object of exactly id, type, success and error, with
\* type "result", success false, error.code "not_allowed" and a non-empty
\* error.message, whose id is the id of the rejected frame, null when the
\* frame had none.
C29_RejectionFrame ==
    (last.op = "filter_client_message" /\ ~last.raised /\ ~last.allowed) =>
        /\ ClientCall
        /\ Len(last.error_response) = 1
        /\ last.error_response[1].kind = "text"
        /\ last.error_response[1].valid
        /\ IsDict(last.error_response[1].data)
        /\ DOMAIN last.error_response[1].data.v = {"id", "type", "success", "error"}
        /\ last.error_response[1].data.v["type"] = S("result")
        /\ last.error_response[1].data.v["success"] = B(FALSE)
        /\ IsDict(last.error_response[1].data.v["error"])
        /\ DOMAIN last.error_response[1].data.v["error"].v = {"code", "message"}
        /\ last.error_response[1].data.v["error"].v["code"] = S("not_allowed")
        /\ IsStr(last.error_response[1].data.v["error"].v["message"])
        /\ last.error_response[1].data.v["error"].v["message"].v # ""
        /\ last.error_response[1].data.v["id"] = LastFrameId
        /\ "id" \notin DOMAIN last.message.data.v => last.error_response[1].data.v["id"] = None

\* a blocked frame with an id was rejected with that id
C29_Witness ==
    /\ ClientRejected
    /\ LastFrameId = N(MaxId)
    /\ last.error_response[1].data.v["id"] = N(MaxId)
    /\ RejectedWith("Message type not allowed: render_template")

\* a frame without an id was rejected with a null id
C29_WitnessNoId ==
    /\ ClientRejected
    /\ RejectedWith("Message type not allowed: fire_event")
    /\ "id" \notin DOMAIN last.message.data.v
    /\ last.error_response[1].data.v["id"] = None

(***************************************************************************)
(* A connection of limit mode with the list requests counted that the      *)
(* upstream has still to answer.                                           *)
(***************************************************************************)
InitList ==
    /\ whitelist \in {WL_TEST, WL_EMPTY}
    /\ ws_filter = TRUE
    /\ ws_learner = FALSE
    /\ limiter = TRUE
    /\ pending_requests = <<>>
    /\ entity_subscriptions = {}
    /\ c2u = "idle"
    /\ u2c = "idle"
    /\ pc = "accepted"
    /\ last = NoStep
    /\ loop = NoTasks
    /\ relay = [recording |-> FALSE, counting |-> TRUE, outstanding |-> [i \in Ids |-> 0],
                reused |-> FALSE, replied |-> FALSE]
    /\ NoLearner

SpecList == InitList /\ [][Next]_vars

\* the upstream has just answered a list request with a list, and the frame
\* went through the filter without an error
ListReply ==
    /\ relay.counting
    /\ last.op = "upstream_text"
    /\ relay.replied
    /\ IsList(Get(last.message.data.v, "result"))
    /\ ~last.raised

\* the frame the client got is the answer with its list filtered, not the
\* frame as the upstream sent it
ListFiltered ==
    last.to_client # <<>> =>
        /\ last.to_client[1].fmt = "dumps"
        /\ last.to_client[1].data.v["result"].v
              = SelectSeqBy(last.message.data.v["result"].v,
                            Range(last.to_client[1].data.v["result"].v))
        /\ \A e \in EntitiesIn(last.to_client[1]) : is_entity_allowed(whitelist, e)

\* C30: in limit mode, on every interleaving of the two pumps, a result frame
\* with a list that the upstream sends in reply to a list request the proxy
\* sent it reaches the client only with the list filtered, also when two list
\* requests with the same id were sent before the first was answered.
C30_ListRepliesFiltered ==
    ListReply => ListFiltered

\* what holds: as long as no list request was sent with the id of a list
\* request not yet answered, every reply is filtered
ListRepliesFilteredWithoutReuse ==
    (ListReply /\ ~relay.reused) => ListFiltered

\* a reply to the only outstanding list request was delivered filtered
ListReplyFilteredReached ==
    /\ ListReply
    /\ ~relay.reused
    /\ last.to_client # <<>>
    /\ Len(last.to_client[1].data.v["result"].v) = 1

\* the call just made was filter_server_message on a result frame
ResultCall ==
    /\ last.op = "filter_server_message"
    /\ last.message.valid
    /\ IsDict(last.message.data)
    /\ Get(last.message.data.v, "type") = S("result")
    /\ Hashable(Get(last.message.data.v, "id"))

\* ... whose id was in pending_requests when the call began
TrackedResultCall == ResultCall /\ Get(last.message.data.v, "id") \in DOMAIN last.pending

\* C31: a result frame whose id is in pending_requests takes that id, and
\* nothing else, out of pending_requests, whether its result is a list or not;
\* when its result is no list the frame is forwarded as the text received; a
\* result frame whose id is not in pending_requests is forwarded as the text
\* received and leaves pending_requests as it was.
C31_TrackedResultPopped ==
    /\ TrackedResultCall =>
          /\ DOMAIN pending_requests = DOMAIN last.pending \ {Get(last.message.data.v, "id")}
          /\ \A k \in DOMAIN pending_requests : pending_requests[k] = last.pending[k]
          /\ ~IsList(Get(last.message.data.v, "result")) => ForwardedUnchanged
    /\ (ResultCall /\ ~TrackedResultCall) =>
          /\ pending_requests = last.pending
          /\ ForwardedUnchanged

\* a tracked result that is no list was forwarded and its id removed
C31_Witness ==
    /\ TrackedResultCall
    /\ last.pending # <<>>
    /\ pending_requests = <<>>
    /\ Get(last.message.data.v, "result") = Obj({<<"entity_id", S("light.bedroom")>>})
    /\ ForwardedUnchanged

\* a result with a list for an id that is not tracked was forwarded
C31_WitnessUntracked ==
    /\ ResultCall
    /\ ~TrackedResultCall
    /\ last.pending # <<>>
    /\ IsList(Get(last.message.data.v, "result"))
    /\ ForwardedUnchanged

\* the call just made was filter_server_message on a JSON array
BatchCall ==
    /\ last.op = "filter_server_message"
    /\ last.message.valid
    /\ IsList(last.message.data)

LastBatch == last.message.data.v

RECURSIVE ElementResult(_)
\* what _filter_single_message returns for element k of the batch when it is
\* called on it as on a single frame, on the state the elements before it left
ElementResult(k) ==
    filter_single_message(whitelist,
                          IF k = 1 THEN last.pending ELSE ElementResult(k - 1).pending,
                          entity_subscriptions, LastBatch[k])

RECURSIVE ElementsKept(_)
\* what the first k elements leave to send: the rewritten or unchanged
\* elements, in order, without the dropped ones
ElementsKept(k) ==
    IF k = 0 THEN <<>> ELSE ElementsKept(k - 1) \o ElementResult(k).out

\* C32: on a frame whose top level is an array, every element is filtered as a
\* single frame would be, in order and with the same effect on
\* pending_requests; the frame is dropped when no element is left, returned as
\* the text received when every element came back as it was, and otherwise
\* replaced by the array of the elements left, rewritten ones in their
\* rewritten form.
C32_BatchFiltered ==
    (BatchCall /\ \A k \in 1..Len(LastBatch) : ~ElementResult(k).raised) =>
        /\ ~last.raised
        /\ pending_requests =
              IF LastBatch = <<>> THEN last.pending ELSE ElementResult(Len(LastBatch)).pending
        /\ last.out =
              IF ElementsKept(Len(LastBatch)) = <<>> THEN <<>>
              ELSE IF \A k \in 1..Len(LastBatch) : ElementResult(k).same THEN <<last.message>>
              ELSE <<json_dumps(L(ElementsKept(Len(LastBatch))))>>

\* a batch of a tracked list result and a state_changed event of a non-allowed
\* entity came back as an array of the filtered result alone
C32_Witness ==
    /\ BatchCall
    /\ Len(LastBatch) = 2
    /\ IsDict(LastBatch[1])
    /\ Get(LastBatch[1].v, "type") = S("result")
    /\ last.pending # <<>>
    /\ pending_requests = <<>>
    /\ ~last.raised
    /\ Len(last.out) = 1
    /\ last.out[1].fmt = "dumps"
    /\ Len(last.out[1].data.v) = 1
    /\ Len(last.out[1].data.v[1].v["result"].v) = 1

\* a batch whose elements were all dropped was dropped
C32_WitnessDropped ==
    /\ BatchCall
    /\ Len(LastBatch) = 2
    /\ ~last.raised
    /\ last.out = <<>>

\* C33: after an accepted config/floor_registry/list request with id i, a
\* result frame with id i and a list result comes back with every element of
\* the list when the areas allowlist has an entry, and with the empty list
\* when the areas allowlist is empty; every other field is unchanged.
C33_FloorListFiltered ==
    ListResultFor(FLOOR_LIST_TYPES) =>
        IF whitelist.areas # <<>>
            THEN ReturnsWithResult(last.message.data.v["result"].v)
        ELSE ReturnsWithResult(<<>>)

\* a floor list of two elements came back empty under an empty areas allowlist
C33_Witness ==
    /\ ListResultFor(FLOOR_LIST_TYPES)
    /\ whitelist.areas = <<>>
    /\ Len(last.message.data.v["result"].v) = 2
    /\ ReturnsWithResult(<<>>)

\* a floor list of two elements came back whole under a non-empty allowlist
C33_WitnessWhole ==
    /\ ListResultFor(FLOOR_LIST_TYPES)
    /\ whitelist.areas # <<>>
    /\ ~last.raised
    /\ Len(last.out[1].data.v["result"].v) = 2

\* the message of the error frame the rejection returned
RejectionText == last.error_response[1].data.v["error"].v["message"].v

\* C34: a call of filter_client_message that rejects the frame leaves
\* pending_requests and entity_subscriptions as they were before the call,
\* whatever the cause of the rejection.
C34_RejectionKeepsState ==
    ClientRejected =>
        /\ pending_requests = last.pending
        /\ entity_subscriptions = last.subs

\* a call_service frame with a target outside the allowlist was rejected on a
\* filter that had a pending request and a subscription, and both are kept
C34_Witness ==
    /\ ClientRejected
    /\ CallServiceCall
    /\ StartsWith(RejectionText, "Entity not in whitelist")
    /\ last.pending # <<>>
    /\ last.subs # {}
    /\ pending_requests = last.pending
    /\ entity_subscriptions = last.subs

\* each of the other causes rejected a frame on such a filter
C34_WitnessBlockedType ==
    ClientRejected /\ last.pending # <<>> /\ StartsWith(RejectionText, "Message type not allowed")
C34_WitnessSubscribeEvents ==
    ClientRejected /\ last.pending # <<>> /\ StartsWith(RejectionText, "Event type not allowed")
C34_WitnessBlockedService ==
    ClientRejected /\ last.pending # <<>> /\ StartsWith(RejectionText, "Service not allowed")
C34_WitnessImplicitTarget ==
    /\ ClientRejected
    /\ last.pending # <<>>
    /\ \E n \in 1..Len(RejectionText) :
          SubSeq(RejectionText, n, Len(RejectionText)) = " requires explicit targets"

\* the step just taken was client_to_upstream taking a text frame with a
\* filter attached, and the filter returned
FilteredClientText == last.op = "client_text" /\ last.filtered /\ ~last.raised

\* C35: with a filter attached, a text frame of the client that the filter
\* rejects makes the pump send the one error frame of the filter to the client
\* and nothing upstream, and the pump goes on to its next frame; a frame the
\* filter allows is sent upstream as received, after any number of rejected
\* frames, as long as the upstream connection is there.
C35_RejectionAnswered ==
    /\ (FilteredClientText /\ ~last.allowed) =>
          /\ Len(last.to_client) = 1
          /\ last.to_client[1].valid
          /\ Get(last.to_client[1].data.v, "type") = S("result")
          /\ Get(last.to_client[1].data.v, "success") = B(FALSE)
          /\ last.to_upstream = <<>>
          /\ c2u = "running"
    /\ (FilteredClientText /\ last.allowed /\ u2c # "closed") =>
          /\ last.to_upstream = <<last.message>>
          /\ last.to_client = <<>>
          /\ c2u = "running"

\* the first text frame of the connection was rejected and sent nowhere
\* upstream, the second was allowed and has just been sent upstream
C35_Witness ==
    /\ relay.recording
    /\ FilteredClientText
    /\ last.allowed
    /\ Len(relay.to_upstream.received) = 2
    /\ relay.to_upstream.received[1].valid
    /\ IsDict(relay.to_upstream.received[1].data)
    /\ Get(relay.to_upstream.received[1].data.v, "type") = S("call_service")
    /\ Len(relay.to_upstream.forwarded) = 1
    /\ relay.to_upstream.forwarded[1] = [of |-> 2, frame |-> last.message]
    /\ last.to_upstream = <<last.message>>

\* a rejected frame was answered with its error frame
C35_WitnessRejected ==
    /\ FilteredClientText
    /\ ~last.allowed
    /\ Len(last.to_client) = 1
    /\ last.to_upstream = <<>>
    /\ c2u = "running"

(***************************************************************************)
(* SpecSound: a request observed in learn mode, learn_from_request called  *)
(* on its path, and then the same path given to check_request under the    *)
(* allowlist that learning left.                                           *)
(***************************************************************************)
InitSound ==
    /\ whitelist \in LearnStarts
    /\ limiter = FALSE
    /\ ws_filter = FALSE
    /\ ws_learner = FALSE
    /\ pending_requests = <<>>
    /\ entity_subscriptions = {}
    /\ c2u = "idle"
    /\ u2c = "idle"
    /\ pc = "learn"
    /\ last \in {[op |-> "request", path |-> p] : p \in NormalizePaths}
    /\ loop = NoTasks
    /\ relay = NoRelay
    /\ learner = TRUE
    /\ request_count = 0
    /\ config_file = FileOf(whitelist)
    /\ observed = 0
    /\ saves = 0

\* proxy_request in learn mode: learn_from_request(path, query)
SoundLearn ==
    /\ pc = "learn"
    /\ whitelist' = learn_from_request(whitelist, last.path, "")
    /\ last' = [op |-> "learn_from_request", path |-> last.path, before |-> whitelist]
    /\ pc' = "check"
    /\ observed' = observed + 1
    /\ UNCHANGED <<learner, request_count, config_file, saves, limiter, ws_filter,
                   ws_learner, pending_requests, entity_subscriptions, c2u, u2c>>
    /\ UNCHANGED <<loop, relay>>

\* proxy_request in limit mode with the allowlist learned:
\* check_request(path, method, query) with an empty query
SoundCheck ==
    /\ pc = "check"
    /\ last' = [op |-> "check_request", path |-> last.path, before |-> last.before,
                result |-> check_request(whitelist, last.path, "GET", "")]
    /\ pc' = "done"
    /\ UNCHANGED <<learn_vars, whitelist, limiter, ws_filter, ws_learner, pending_requests,
                   entity_subscriptions, c2u, u2c>>
    /\ UNCHANGED <<loop, relay>>

NextSound == SoundLearn \/ SoundCheck

SpecSound == InitSound /\ [][NextSound]_vars

\* C36: a path that learn_from_request has observed is allowed by
\* check_request, with an empty query, under the allowlist learning left, for
\* paths of every shape the normalizer recognizes, history and logbook paths
\* with further segments after the date among them, and for paths of no such
\* shape.
C36_LearnThenLimitSound ==
    last.op = "check_request" => last.result.allowed

\* the history and logbook paths that go on with another segment after the
\* segment that starts with the date
DateWithSegments(path) ==
    \E prefix \in {"/api/history/period/", "/api/logbook/"} :
        /\ StartsWith(path, prefix)
        /\ DatePrefix(After(path, prefix))
        /\ IndexOf(After(path, prefix), "/", 1) # 0

\* the camera paths: the limiter takes their entity from the path, the
\* learner does not
CameraPath(path) ==
    StartsWith(path, "/api/camera_proxy/") /\ EntityShape(After(path, "/api/camera_proxy/"))

\* what holds: every observed path is allowed afterwards, except a history or
\* logbook path with further segments, which is allowed only if an endpoint
\* that was in the allowlist before covers it, and a camera path, which is
\* allowed only if its entity was in the allowlist before
LearnThenLimitSoundOneSegment ==
    last.op = "check_request" =>
        IF DateWithSegments(last.path)
            THEN last.result.allowed = is_endpoint_allowed(last.before, last.path)
        ELSE IF CameraPath(last.path)
            THEN last.result.allowed =
                    is_entity_allowed(last.before, After(last.path, "/api/camera_proxy/"))
        ELSE last.result.allowed

\* paths of each recognized shape were learned and are allowed
LearnThenLimitReached ==
    /\ last.op = "check_request"
    /\ last.before = WL_EMPTY
    /\ last.path = "/api/history/period/2024-01-01T00:00:00"
    /\ whitelist.endpoints = <<"/api/history/period/{timestamp}">>
    /\ last.result.allowed

\* the list `new` is the list `old` with entries appended, or `old` itself
Extends(old, new) == Len(old) <= Len(new) /\ SubSeq(new, 1, Len(old)) = old

\* C37: in learn mode no step of learning, from a request, from a response or
\* from a WebSocket frame, removes or alters an entry of endpoints, entities,
\* devices or areas: each list after the step is the list before it with
\* entries appended; allowed_ws_types, allowed_event_types and
\* allowed_services are the same after every step.
C37_LearnOnlyGrows ==
    [][/\ Extends(whitelist.endpoints, whitelist'.endpoints)
       /\ Extends(whitelist.entities, whitelist'.entities)
       /\ Extends(whitelist.devices, whitelist'.devices)
       /\ Extends(whitelist.areas, whitelist'.areas)
       /\ whitelist'.allowed_ws_types = whitelist.allowed_ws_types
       /\ whitelist'.allowed_event_types = whitelist.allowed_event_types
       /\ whitelist'.allowed_services = whitelist.allowed_services]_vars

\* learning from requests and from WebSocket frames has appended to each of
\* the four lists of an allowlist that had entries
C37_Witness ==
    /\ loop # NoTasks
    /\ Extends(WL_TEST.endpoints, whitelist.endpoints)
    /\ Extends(WL_TEST.entities, whitelist.entities)
    /\ Len(whitelist.entities) > Len(WL_TEST.entities)
    /\ whitelist.devices = WL_TEST.devices \o <<"device_unknown">>
    /\ whitelist.areas = WL_TEST.areas \o <<"bedroom">>
    /\ whitelist.allowed_ws_types = WL_TEST.allowed_ws_types

\* no string is twice in the list
NoDuplicates(list) == \A i, j \in 1..Len(list) : list[i] = list[j] => i = j

\* the list of the allowlist wl that add_<kind> appends to
ListOf(kind, wl) ==
    CASE kind = "endpoint" -> wl.endpoints
      [] kind = "entity"   -> wl.entities
      [] kind = "device"   -> wl.devices
      [] kind = "area"     -> wl.areas

\* C38: from an allowlist without duplicates, after any calls of add_endpoint,
\* add_entity, add_device and add_area (the calls learning makes) none of the
\* four lists holds a string twice, and an entry is appended only when it was
\* not in the list and no entry of the list matched it; the list is then the
\* earlier list with that entry at its end.
C38_NoDuplicates ==
    /\ \A kind \in AddKinds : NoDuplicates(ListOf(kind, whitelist))
    /\ (last.op = "add" /\ last.added) =>
          /\ last.x \notin Range(ListOf(last.kind, last.before))
          /\ ~is_allowed(last.kind, last.before, last.x)
          /\ ListOf(last.kind, whitelist) = Append(ListOf(last.kind, last.before), last.x)
    /\ (last.op = "add" /\ ~last.added) => whitelist = last.before

\* two entries were appended, one after the other, to a list that had entries
C38_Witness ==
    /\ last.op = "add"
    /\ last.added
    /\ last.previous.op = "add"
    /\ last.previous.added
    /\ last.previous.kind = last.kind
    /\ ListOf(last.kind, last.previous.before) # <<>>
    /\ Len(ListOf(last.kind, whitelist)) = Len(ListOf(last.kind, last.previous.before)) + 2
    /\ NoDuplicates(ListOf(last.kind, whitelist))

\* wherever learning runs the four lists hold no string twice
LearnedWithoutDuplicates ==
    \A kind \in AddKinds : NoDuplicates(ListOf(kind, whitelist))

\* the step just taken was a pump handing a text frame to the filter
FilteredText == last.op \in {"client_text", "upstream_text"} /\ last.filtered

\* C39: filter_client_message and filter_server_message return for every text
\* frame and never raise, whether the text is no JSON, a JSON object, or JSON
\* whose top level is no object; so no text frame makes a pump end.
C39_FiltersNeverRaise ==
    FilteredText => ~last.raised

\* what holds: text that is no JSON is returned by both filters as received
\* and the pump sends it on
InvalidJsonPassesFilters ==
    (FilteredText /\ ~last.message.valid) =>
        /\ ~last.raised
        /\ last.op = "client_text" => (last.to_upstream = <<last.message>> \/ u2c = "closed")
        /\ last.op = "upstream_text" =>
              (last.to_client = <<last.message>> \/ c2u = "disconnected")

\* the client's pump has ended on a frame whose JSON is a string: the filter
\* raised on it and nothing was sent to either side
ClientPumpEndedByFrame ==
    /\ last.op = "client_text"
    /\ last.filtered
    /\ last.raised
    /\ last.message = Text("raw", S("ping"))
    /\ c2u = "failed"
    /\ last.to_upstream = <<>>
    /\ last.to_client = <<>>

\* filter_server_message raised on a batch that has an element that is no
\* object
ServerFilterRaisedOnBatch ==
    /\ BatchCall
    /\ last.raised
    /\ \E k \in 1..Len(LastBatch) : ~IsDict(LastBatch[k])

====
